---- MODULE Spec2Model ----
(***************************************************************************)
(* A model of the GraphQLite TypeScript binding (src/src/graph.ts,         *)
(* src/src/utils.ts): the Graph connection object, its query facade, the   *)
(* result decoder and the helpers built on them.                           *)
(*                                                                         *)
(* JavaScript values are tagged records: t is the type tag, and the        *)
(* payload has a field of its own per type (b, n, s, items, members).      *)
(* Strings are TLA+ strings, read character by character with SubSeq.  An  *)
(* object is the sequence of its members [k, v] in own-property order.  A  *)
(* thrown error is a record of its class name t and its message.           *)
(***************************************************************************)
EXTENDS Integers, Sequences, FiniteSets, TLC

VARIABLES
    extensionLoaded,  \* Graph.extensionLoaded
    dbOpen,           \* Graph.db is open
    store,            \* the graph held by the native engine
    cacheLoaded,      \* the native graph cache is loaded
    last              \* the call the caller waits on: operation, arguments, the
                      \* engine's answer, outcome and native calls

vars == <<extensionLoaded, dbOpen, store, cacheLoaded, last>>

----------------------------------------------------------------------------
(* JavaScript values *)

Undef == [t |-> "undef"]
JNull == [t |-> "null"]
JBool(b) == [t |-> "bool", b |-> b]
JNum(n) == [t |-> "num", n |-> n]
JStr(s) == [t |-> "str", s |-> s]
JArr(xs) == [t |-> "arr", items |-> xs]
JObj(ms) == [t |-> "obj", members |-> ms]
Member(k, x) == [k |-> k, v |-> x]

ErrorClasses == {"Error", "SyntaxError", "TypeError", "GraphQLiteError"}
JError(class, message) == [t |-> class, message |-> message]

\* The outcome of a call: a returned value or a thrown error.
Ok(x) == [ok |-> TRUE, v |-> x]
Throw(e) == [ok |-> FALSE, v |-> e]

IsNullish(x) == x.t \in {"undef", "null"}
\* x ?? null
OrNull(x) == IF IsNullish(x) THEN JNull ELSE x
\* typeof x === 'object' && x !== null
IsObjectLike(x) == x.t \in {"obj", "arr"}

----------------------------------------------------------------------------
(* Strings *)

\* the character at position i (1-based), "" past the end
Ch(s, i) == IF i >= 1 /\ i <= Len(s) THEN SubSeq(s, i, i) ELSE ""

StartsWith(s, p) == Len(s) >= Len(p) /\ SubSeq(s, 1, Len(p)) = p

Includes(s, p) ==
    \E i \in 1..(Len(s) - Len(p) + 1) : SubSeq(s, i, i + Len(p) - 1) = p

DigitChars == "0123456789"
Digits == {Ch(DigitChars, d) : d \in 1..10}
IsDigit(c) == c \in Digits
DigitVal(c) == (CHOOSE d \in 1..10 : Ch(DigitChars, d) = c) - 1

IdentChars == "abcdefghijklmnopqrstuvwxyzABCDEFGHIJKLMNOPQRSTUVWXYZ_0123456789"
IdentCharSet == {Ch(IdentChars, i) : i \in 1..Len(IdentChars)}
IsIdentChar(c) == c \in IdentCharSet

RECURSIVE IdentEnd(_, _)
\* the first position at or after i that holds no identifier character
IdentEnd(s, i) == IF IsIdentChar(Ch(s, i)) THEN IdentEnd(s, i + 1) ELSE i

RECURSIVE AllDigits(_, _)
AllDigits(s, i) == i > Len(s) \/ (IsDigit(Ch(s, i)) /\ AllDigits(s, i + 1))

RECURSIVE StrToNat(_, _)
\* the value of the digits s[1..n]
StrToNat(s, n) ==
    IF n = 0 THEN 0 ELSE 10 * StrToNat(s, n - 1) + DigitVal(Ch(s, n))

RECURSIVE NatToStr(_)
NatToStr(n) ==
    IF n < 10 THEN Ch(DigitChars, n + 1)
    ELSE NatToStr(n \div 10) \o Ch(DigitChars, (n % 10) + 1)

IntToStr(n) == IF n < 0 THEN "-" \o NatToStr(-n) ELSE NatToStr(n)

\* s.replace(/c/g, r)
RECURSIVE ReplaceAll(_, _, _)
ReplaceAll(s, c, r) ==
    IF s = "" THEN ""
    ELSE (IF Ch(s, 1) = c THEN r ELSE Ch(s, 1))
         \o ReplaceAll(SubSeq(s, 2, Len(s)), c, r)

----------------------------------------------------------------------------
(* Objects: own properties in JavaScript's order (array-index names in     *)
(* ascending numeric order first, then the other names in insertion order) *)

\* a canonical array index: "0", or digits without a leading zero
IsIndexKey(k) ==
    /\ Len(k) >= 1
    /\ Len(k) <= 9
    /\ AllDigits(k, 1)
    /\ (Len(k) = 1 \/ Ch(k, 1) # "0")

KeyIndex(k) == StrToNat(k, Len(k))

HasOwn(ms, k) == \E i \in 1..Len(ms) : ms[i].k = k

OwnIndex(ms, k) == CHOOSE i \in 1..Len(ms) : ms[i].k = k

\* the place a new property k takes among the members ms
InsertAt(ms, k) ==
    IF IsIndexKey(k)
    THEN Cardinality({i \in 1..Len(ms) :
            IsIndexKey(ms[i].k) /\ KeyIndex(ms[i].k) < KeyIndex(k)}) + 1
    ELSE Len(ms) + 1

\* obj[k] = x on the member list ms
SetMember(ms, k, x) ==
    IF HasOwn(ms, k)
    THEN [ms EXCEPT ![OwnIndex(ms, k)] = Member(k, x)]
    ELSE LET p == InsertAt(ms, k)
         IN  SubSeq(ms, 1, p - 1) \o <<Member(k, x)>> \o SubSeq(ms, p, Len(ms))

\* x[k] for a value x that is neither null nor undefined (members inherited
\* from the prototypes other than length are not modelled)
Get(x, k) ==
    CASE x.t = "obj" ->
            IF HasOwn(x.members, k) THEN x.members[OwnIndex(x.members, k)].v ELSE Undef
      [] x.t = "arr" ->
            IF k = "length" THEN JNum(Len(x.items))
            ELSE IF IsIndexKey(k) /\ KeyIndex(k) < Len(x.items)
                 THEN x.items[KeyIndex(k) + 1] ELSE Undef
      [] x.t = "str" ->
            IF k = "length" THEN JNum(Len(x.s))
            ELSE IF IsIndexKey(k) /\ KeyIndex(k) < Len(x.s)
                 THEN JStr(Ch(x.s, KeyIndex(k) + 1)) ELSE Undef
      [] OTHER -> Undef

\* 'k' in x, for an object or an array x
HasProperty(x, k) ==
    CASE x.t = "obj" -> HasOwn(x.members, k)
      [] x.t = "arr" -> k = "length" \/ (IsIndexKey(k) /\ KeyIndex(k) < Len(x.items))
      [] OTHER -> FALSE

\* Object.keys(x) for an object or an array x
ObjectKeys(x) ==
    IF x.t = "obj" THEN [i \in 1..Len(x.members) |-> x.members[i].k]
    ELSE [i \in 1..Len(x.items) |-> NatToStr(i - 1)]

\* Object.entries(x) of an object x, as its member list
ObjectEntries(x) == x.members

RECURSIVE JsToString(_)
RECURSIVE JoinStrings(_, _)
JoinStrings(xs, sep) ==
    IF xs = <<>> THEN ""
    ELSE IF Len(xs) = 1 THEN xs[1]
    ELSE xs[1] \o sep \o JoinStrings(Tail(xs), sep)

\* String(x)
JsToString(x) ==
    CASE x.t = "str" -> x.s
      [] x.t = "num" -> IntToStr(x.n)
      [] x.t = "bool" -> IF x.b THEN "true" ELSE "false"
      [] x.t = "null" -> "null"
      [] x.t = "undef" -> "undefined"
      [] x.t = "arr" ->
            JoinStrings([i \in 1..Len(x.items) |->
                IF IsNullish(x.items[i]) THEN "" ELSE JsToString(x.items[i])], ",")
      [] x.t = "obj" -> "[object Object]"
      [] OTHER -> x.t \o ": " \o x.message

----------------------------------------------------------------------------
(* JSON.parse and JSON.stringify.  Number literals are integers; the        *)
(* escapes of a string literal are \" \\ and \/.                           *)

Parsed(x, i) == [ok |-> TRUE, v |-> x, i |-> i]
\* a syntax error at position i
NoParse(i) == [ok |-> FALSE, v |-> Undef, i |-> i]

RECURSIVE SkipWs(_, _)
SkipWs(s, i) == IF Ch(s, i) = " " THEN SkipWs(s, i + 1) ELSE i

RECURSIVE DigitsEnd(_, _)
\* the first position at or after i that holds no digit
DigitsEnd(s, i) == IF IsDigit(Ch(s, i)) THEN DigitsEnd(s, i + 1) ELSE i

\* the digits s[i..j-1]
UnsignedTo(s, i, j) == Parsed(JNum(StrToNat(SubSeq(s, i, j - 1), j - i)), j)

\* an unsigned integer literal at i: 0, or digits without a leading zero
ParseUnsigned(s, i) ==
    IF ~IsDigit(Ch(s, i)) THEN NoParse(i)
    ELSE IF Ch(s, i) = "0" THEN Parsed(JNum(0), i + 1)
    ELSE UnsignedTo(s, i, DigitsEnd(s, i))

Negated(r) == IF r.ok THEN Parsed(JNum(0 - r.v.n), r.i) ELSE r

ParseNumber(s, i) ==
    IF Ch(s, i) = "-"
    THEN Negated(ParseUnsigned(s, i + 1))
    ELSE ParseUnsigned(s, i)

RECURSIVE ParseStringBody(_, _, _)
\* the rest of a string literal whose opening quote precedes position i
ParseStringBody(s, i, acc) ==
    IF Ch(s, i) = "" THEN NoParse(i)
    ELSE IF Ch(s, i) = "\"" THEN Parsed(JStr(acc), i + 1)
    ELSE IF Ch(s, i) = "\\"
         THEN IF Ch(s, i + 1) \in {"\"", "\\", "/"}
              THEN ParseStringBody(s, i + 2, acc \o Ch(s, i + 1))
              ELSE NoParse(i + 1)
    ELSE ParseStringBody(s, i + 1, acc \o Ch(s, i))

ParseLiteral(s, i, word, x) ==
    IF SubSeq(s, i, i + Len(word) - 1) = word
    THEN Parsed(x, i + Len(word)) ELSE NoParse(i)

RECURSIVE ParseValue(_, _)
RECURSIVE ParseElements(_, _, _, _)
RECURSIVE ParseMembers(_, _, _, _)

\* a value whose first character c is at position i
ValueAt(s, i, c) ==
    CASE c = "{" -> ParseMembers(s, i + 1, <<>>, TRUE)
      [] c = "[" -> ParseElements(s, i + 1, <<>>, TRUE)
      [] c = "\"" -> ParseStringBody(s, i + 1, "")
      [] c = "-" \/ IsDigit(c) -> ParseNumber(s, i)
      [] c = "n" /\ Len(s) >= i + 3 -> ParseLiteral(s, i, "null", JNull)
      [] c = "t" /\ Len(s) >= i + 3 -> ParseLiteral(s, i, "true", JBool(TRUE))
      [] c = "f" /\ Len(s) >= i + 4 -> ParseLiteral(s, i, "false", JBool(FALSE))
      [] OTHER -> NoParse(i)

ValueFrom(s, i) == ValueAt(s, i, Ch(s, i))

ParseValue(s, i0) == ValueFrom(s, SkipWs(s, i0))

\* after the elements acc, at the separator at position k
ElementsSeparator(s, k, acc) ==
    IF Ch(s, k) = "," THEN ParseElements(s, k + 1, acc, FALSE)
    ELSE IF Ch(s, k) = "]" THEN Parsed(JArr(acc), k + 1)
    ELSE NoParse(k)

\* after the element parse r that follows the elements acc
ElementsAfter(s, r, acc) ==
    IF ~r.ok THEN r ELSE ElementsSeparator(s, SkipWs(s, r.i), Append(acc, r.v))

ElementsFrom(s, i, acc, first) ==
    IF first /\ Ch(s, i) = "]" THEN Parsed(JArr(acc), i + 1)
    ELSE ElementsAfter(s, ParseValue(s, i), acc)

ParseElements(s, i0, acc, first) == ElementsFrom(s, SkipWs(s, i0), acc, first)

\* after the members ms, at the separator at position m
MembersSeparator(s, m, ms) ==
    IF Ch(s, m) = "," THEN ParseMembers(s, m + 1, ms, FALSE)
    ELSE IF Ch(s, m) = "}" THEN Parsed(JObj(ms), m + 1)
    ELSE NoParse(m)

\* after the value parse val of the member named key
MemberValue(s, key, val, ms) ==
    IF ~val.ok THEN val
    ELSE MembersSeparator(s, SkipWs(s, val.i), SetMember(ms, key, val.v))

\* at the colon expected at position k after the member name key
MemberColon(s, key, k, ms) ==
    IF Ch(s, k) # ":" THEN NoParse(k)
    ELSE MemberValue(s, key, ParseValue(s, k + 1), ms)

\* after the parse key of a member name
MemberName(s, key, ms) ==
    IF ~key.ok THEN key ELSE MemberColon(s, key.v.s, SkipWs(s, key.i), ms)

MembersFrom(s, i, ms, first) ==
    IF first /\ Ch(s, i) = "}" THEN Parsed(JObj(ms), i + 1)
    ELSE IF Ch(s, i) # "\"" THEN NoParse(i)
    ELSE MemberName(s, ParseStringBody(s, i + 1, ""), ms)

ParseMembers(s, i0, ms, first) == MembersFrom(s, SkipWs(s, i0), ms, first)

\* the message of the SyntaxError JSON.parse throws for an error at position i,
\* in the wording of the runtime's parser: it names the end of the input, the
\* offending identifier or the offending character
SyntaxMessage(s, i) ==
    IF i > Len(s) THEN "JSON Parse error: Unexpected EOF"
    ELSE IF IsIdentChar(Ch(s, i)) /\ ~IsDigit(Ch(s, i))
    THEN "JSON Parse error: Unexpected identifier \""
            \o SubSeq(s, i, IdentEnd(s, i) - 1) \o "\""
    ELSE "JSON Parse error: Unrecognized token '" \o Ch(s, i) \o "'"

SyntaxError(s, i) == Throw(JError("SyntaxError", SyntaxMessage(s, i)))

\* the end of the text expected at position k after the value x
ParseEnd(s, x, k) == IF k <= Len(s) THEN SyntaxError(s, k) ELSE Ok(x)

ParseWhole(s, r) ==
    IF ~r.ok THEN SyntaxError(s, r.i) ELSE ParseEnd(s, r.v, SkipWs(s, r.i))

\* JSON.parse(s): the parsed value, or a thrown SyntaxError
JsonParse(s) == ParseWhole(s, ParseValue(s, 1))

RECURSIVE EscapeJson(_)
EscapeJson(s) ==
    IF s = "" THEN ""
    ELSE (IF Ch(s, 1) \in {"\"", "\\"} THEN "\\" \o Ch(s, 1) ELSE Ch(s, 1))
         \o EscapeJson(SubSeq(s, 2, Len(s)))

Quoted(s) == "\"" \o EscapeJson(s) \o "\""

RECURSIVE JsonStringify(_)
\* JSON.stringify(x)
JsonStringify(x) ==
    CASE x.t = "str" -> Quoted(x.s)
      [] x.t = "num" -> IntToStr(x.n)
      [] x.t = "bool" -> IF x.b THEN "true" ELSE "false"
      [] x.t = "arr" ->
            "[" \o JoinStrings([i \in 1..Len(x.items) |-> JsonStringify(x.items[i])], ",")
                \o "]"
      [] x.t = "obj" ->
            "{" \o JoinStrings([i \in 1..Len(x.members) |->
                        Quoted(x.members[i].k) \o ":" \o JsonStringify(x.members[i].v)], ",")
                \o "}"
      [] OTHER -> "null"

----------------------------------------------------------------------------
(* The result decoder (src/src/utils.ts) *)

Table(columns, data) == JObj(<<Member("columns", columns), Member("data", data)>>)

\* { columns: [], data: [] }
EmptyTable == Table(JArr(<<>>), JArr(<<>>))

\* variant of RowValues: a member the row lacks yields no value
RowValuesPresent(row, columns) ==
    JArr(SelectSeq([j \in 1..Len(columns) |-> Get(row, columns[j])],
                   LAMBDA x : ~IsNullish(x)))

\* columns.map(col => row[col] ?? null)
RowValues(row, columns) ==
    JArr([j \in 1..Len(columns) |-> OrNull(Get(row, columns[j]))])

\* the table of the rows items under the column names columns; row[col]
\* throws a TypeError on a null element
arrayTable(items, columns) ==
    IF Len(columns) > 0 /\ \E i \in 1..Len(items) : IsNullish(items[i])
    THEN Throw(JError("TypeError", "null is not an object (evaluating 'row[col]')"))
    ELSE Ok(Table(JArr([j \in 1..Len(columns) |-> JStr(columns[j])]),
                  JArr([i \in 1..Len(items) |-> RowValues(items[i], columns)])))

\* the array format: columns from the first object, one row per element
decodeArray(parsed) == arrayTable(parsed.items, ObjectKeys(parsed.items[1]))

\* the try block of parseCypherResult after JSON.parse returned parsed
decodeParsed(parsed) ==
    IF parsed.t = "str" /\ StartsWith(parsed.s, "Error")
    THEN Throw(JError("Error", parsed.s))
    ELSE IF IsObjectLike(parsed) /\ HasProperty(parsed, "columns")
            /\ HasProperty(parsed, "data")
         THEN Ok(parsed)
    ELSE IF parsed.t = "arr" /\ Len(parsed.items) > 0 /\ IsObjectLike(parsed.items[1])
         THEN decodeArray(parsed)
    ELSE Ok(EmptyTable)

\* the try block of parseCypherResult, p the outcome of JSON.parse
decodeTry(p) == IF ~p.ok THEN p ELSE decodeParsed(p.v)

\* variant of decodeCatch: whatever the try block threw is thrown on
catchRethrows(jsonStr, error) == Throw(error)

\* the catch block of parseCypherResult; every value thrown in the try block
\* is an instance of Error
decodeCatch(jsonStr, error) ==
    IF Includes(jsonStr, "successfully") THEN Ok(EmptyTable)
    ELSE IF error.t \in ErrorClasses THEN Throw(error)
    ELSE Throw(JError("Error", "Failed to parse Cypher result: " \o jsonStr))

\* try { ... } catch (error) { ... } around the outcome r of the try block
decodeTryCatch(jsonStr, r) == IF r.ok THEN r ELSE decodeCatch(jsonStr, r.v)

\* variant of parseCypherResult: the success message is looked for first
parseSuccessFirst(jsonStr) ==
    IF Includes(jsonStr, "Query executed successfully") THEN Ok(EmptyTable)
    ELSE IF StartsWith(jsonStr, "Error") THEN Throw(JError("Error", jsonStr))
    ELSE decodeTryCatch(jsonStr, decodeTry(JsonParse(jsonStr)))

parseCypherResult(jsonStr) ==
    IF StartsWith(jsonStr, "Error") THEN Throw(JError("Error", jsonStr))
    ELSE IF Includes(jsonStr, "Query executed successfully") THEN Ok(EmptyTable)
    ELSE decodeTryCatch(jsonStr, decodeTry(JsonParse(jsonStr)))

RECURSIVE rowMembers(_, _, _)
\* the members of the row object after the first n columns were assigned:
\* row[column] = rowData[index] ?? null
rowMembers(columns, rowData, n) ==
    IF n = 0 THEN <<>>
    ELSE SetMember(rowMembers(columns, rowData, n - 1),
                   JsToString(columns[n]),
                   OrNull(Get(rowData, NatToStr(n - 1))))

\* variant of rowObject: a position the row lacks is left undefined
rowObjectUnfilled(columns, rowData) ==
    IF IsNullish(columns) \/ columns.t # "arr" \/ IsNullish(rowData)
    THEN Throw(JError("TypeError", "not an object"))
    ELSE Ok(JObj([j \in 1..Len(columns.items) |->
                Member(JsToString(columns.items[j]), Get(rowData, NatToStr(j - 1)))]))

\* the callback of result.data.map for one row
rowObject(columns, rowData) ==
    IF IsNullish(columns)
    THEN Throw(JError("TypeError",
            "undefined is not an object (evaluating 'result.columns.forEach')"))
    ELSE IF columns.t # "arr"
    THEN Throw(JError("TypeError", "result.columns.forEach is not a function"))
    ELSE IF Len(columns.items) > 0 /\ IsNullish(rowData)
    THEN Throw(JError("TypeError", "null is not an object (evaluating 'rowData[index]')"))
    ELSE Ok(JObj(rowMembers(columns.items, rowData, Len(columns.items))))

\* the outcome of a map whose callbacks had the outcomes rows: the first
\* throw, else the list of the values
mapOutcome(rows) ==
    IF \E i \in 1..Len(rows) : ~rows[i].ok
    THEN rows[CHOOSE i \in 1..Len(rows) : ~rows[i].ok /\ \A j \in 1..(i - 1) : rows[j].ok]
    ELSE Ok(JArr([i \in 1..Len(rows) |-> rows[i].v]))

\* result.data.map(...) for the members data and columns of result
dataRows(data, columns) ==
    IF IsNullish(data)
    THEN Throw(JError("TypeError",
            "undefined is not an object (evaluating 'result.data.map')"))
    ELSE IF data.t # "arr"
    THEN Throw(JError("TypeError", "result.data.map is not a function"))
    ELSE mapOutcome([i \in 1..Len(data.items) |-> rowObject(columns, data.items[i])])

resultToRows(result) == dataRows(Get(result, "data"), Get(result, "columns"))

----------------------------------------------------------------------------
(* The native engine behind SELECT cypher(...).  The binding treats it as  *)
(* opaque; it is modelled for the query texts upsertNode and upsertEdge    *)
(* compose, as far as the tests and the API notes state its behaviour.     *)
(* A node is [label, props], an edge [src, dst, type, props] with src and  *)
(* dst positions in the node list; props is a member list.                 *)

EmptyStore == [nodes |-> <<>>, edges |-> <<>>]

\* the literal lit at position i of s: the position after it, or 0
Expect(s, i, lit) ==
    IF i >= 1 /\ i + Len(lit) - 1 <= Len(s) /\ SubSeq(s, i, i + Len(lit) - 1) = lit
    THEN i + Len(lit) ELSE 0

\* the identifier s[i..j-1]
IdentTo(s, i, j) ==
    IF j = i \/ IsDigit(Ch(s, i)) THEN NoParse(i)
    ELSE Parsed(JStr(SubSeq(s, i, j - 1)), j)

\* an identifier (label, relationship type, property key) at position i
ReadIdent(s, i) == IdentTo(s, i, IdentEnd(s, i))

RECURSIVE ReadQuotedBody(_, _, _, _)
\* the rest of a string literal opened by the quote q: a backslash makes
\* the next character literal
ReadQuotedBody(s, i, q, acc) ==
    IF Ch(s, i) = "" THEN NoParse(i)
    ELSE IF Ch(s, i) = q THEN Parsed(JStr(acc), i + 1)
    ELSE IF Ch(s, i) = "\\"
         THEN IF Ch(s, i + 1) = "" THEN NoParse(i + 1)
              ELSE ReadQuotedBody(s, i + 2, q, acc \o Ch(s, i + 1))
    ELSE ReadQuotedBody(s, i + 1, q, acc \o Ch(s, i))

\* a number literal ends where no identifier character follows
NumberEnd(s, r) == IF r.ok /\ IsIdentChar(Ch(s, r.i)) THEN NoParse(r.i) ELSE r

\* the keyword literals null, true and false
Keyword(w) ==
    IF ~w.ok THEN w
    ELSE IF w.v.s \in {"null", "NULL"} THEN Parsed(JNull, w.i)
    ELSE IF w.v.s \in {"true", "TRUE"} THEN Parsed(JBool(TRUE), w.i)
    ELSE IF w.v.s \in {"false", "FALSE"} THEN Parsed(JBool(FALSE), w.i)
    ELSE NoParse(w.i)

\* a literal value at position i
ReadValue(s, i) ==
    IF Ch(s, i) \in {"'", "\""} THEN ReadQuotedBody(s, i + 1, Ch(s, i), "")
    ELSE IF Ch(s, i) = "-" \/ IsDigit(Ch(s, i)) THEN NumberEnd(s, ParseNumber(s, i))
    ELSE Keyword(ReadIdent(s, i))

\* a property: null is not stored
PutProp(ms, k, x) ==
    IF x.t = "null"
    THEN SelectSeq(ms, LAMBDA m : m.k # k)
    ELSE SetMember(ms, k, x)

\* The reader of a query text: the position reached and the values read.
Cursor(i, vals) == [ok |-> TRUE, i |-> i, vals |-> vals]
Failed == [ok |-> FALSE, i |-> 0, vals |-> <<>>]

\* the literal lit is next
Lit(p, s, lit) ==
    IF p.ok /\ Expect(s, p.i, lit) # 0 THEN Cursor(p.i + Len(lit), p.vals) ELSE Failed

\* the value of the parse r joins the values read
Keep(p, r) == IF r.ok THEN Cursor(r.i, Append(p.vals, r.v)) ELSE Failed

Ident(p, s) == IF p.ok THEN Keep(p, ReadIdent(s, p.i)) ELSE Failed

Value(p, s) == IF p.ok THEN Keep(p, ReadValue(s, p.i)) ELSE Failed

\* {id: ...}
IdPattern(p, s) == Lit(Value(Lit(p, s, "{id: "), s), s, "}")

RECURSIVE PairsFrom(_, _, _)
\* after a key: value pair, the last two values read, that follows the pairs ms
PairsAfter(p, s, ms) ==
    IF ~p.ok THEN Failed
    ELSE IF Expect(s, p.i, ", ") # 0
         THEN PairsFrom(Cursor(p.i + 2, SubSeq(p.vals, 1, Len(p.vals) - 2)), s,
                        PutProp(ms, p.vals[Len(p.vals) - 1].s, p.vals[Len(p.vals)]))
    ELSE IF Ch(s, p.i) = "}"
         THEN Cursor(p.i + 1,
                Append(SubSeq(p.vals, 1, Len(p.vals) - 2),
                       PutProp(ms, p.vals[Len(p.vals) - 1].s, p.vals[Len(p.vals)])))
    ELSE Failed

\* key: value pairs separated by ", " up to the closing brace
PairsFrom(p, s, ms) == PairsAfter(Value(Lit(Ident(p, s), s, ": "), s), s, ms)

\* {k: v, ...}
Pairs(p, s) == PairsFrom(Lit(p, s, " {"), s, <<>>)

\* the property map of a relationship pattern may be left out
OptionalPairs(p, s) ==
    IF p.ok /\ Expect(s, p.i, " {") = 0 THEN Cursor(p.i, Append(p.vals, <<>>))
    ELSE Pairs(p, s)

\* the query text ends here
AtEnd(p, s) == IF p.ok /\ p.i = Len(s) + 1 THEN p ELSE Failed

Start == Cursor(1, <<>>)

\* MATCH (n {id: x}) RETURN count(n) as cnt
NodeCountQuery(q) ==
    AtEnd(Lit(IdPattern(Lit(Start, q, "MATCH (n "), q), q, ") RETURN count(n) as cnt"), q)

\* MATCH (n {id: x}) SET n.key = val
NodeSetQuery(q) ==
    AtEnd(Value(Lit(Ident(Lit(IdPattern(Lit(Start, q, "MATCH (n "), q),
                              q, ") SET n."), q), q, " = "), q), q)

\* CREATE (n:Label {k: v, ...})
NodeCreateQuery(q) ==
    AtEnd(Lit(Pairs(Ident(Lit(Start, q, "CREATE (n:"), q), q), q, ")"), q)

\* MATCH (a {id: x})-[r]->(b {id: y}) RETURN count(r) as cnt
EdgeCountQuery(q) ==
    AtEnd(Lit(IdPattern(Lit(IdPattern(Lit(Start, q, "MATCH (a "), q),
                            q, ")-[r]->(b "), q),
              q, ") RETURN count(r) as cnt"), q)

\* MATCH (a {id: x})-[r:T]->(b {id: y}) SET r.key = val
EdgeSetQuery(q) ==
    AtEnd(Value(Lit(Ident(Lit(IdPattern(Lit(Ident(Lit(IdPattern(
        Lit(Start, q, "MATCH (a "), q), q, ")-[r:"), q), q, "]->(b "), q),
        q, ") SET r."), q), q, " = "), q), q)

\* MATCH (a {id: x}), (b {id: y}) CREATE (a)-[r:T {k: v, ...}]->(b)
EdgeCreateQuery(q) ==
    AtEnd(Lit(OptionalPairs(Ident(Lit(IdPattern(Lit(IdPattern(
        Lit(Start, q, "MATCH (a "), q), q, "), (b "), q),
        q, ") CREATE (a)-[r:"), q), q), q, "]->(b)"), q)

\* the positions of the nodes whose id property equals x
NodesWithId(st, x) ==
    {n \in 1..Len(st.nodes) : Get(JObj(st.nodes[n].props), "id") = x}

\* the positions of the edges from a node with id x to a node with id y
EdgesBetween(st, x, y) ==
    {e \in 1..Len(st.edges) :
        /\ st.edges[e].src \in NodesWithId(st, x)
        /\ st.edges[e].dst \in NodesWithId(st, y)}

RECURSIVE SetToSeq(_)
\* the elements of a set of numbers in ascending order
SetToSeq(S) ==
    IF S = {} THEN <<>>
    ELSE <<CHOOSE x \in S : \A y \in S : x <= y>>
         \o SetToSeq(S \ {CHOOSE x \in S : \A y \in S : x <= y})

SyntaxErrorResponse == JStr("Error: syntax error")
MutationResponse == JStr("Query executed successfully")
CountResponse(n) == JStr("[{\"cnt\":" \o NatToStr(n) \o "}]")

Answer(resp, st) == [resp |-> resp, store |-> st]

ExecNodeCount(st, x) == Answer(CountResponse(Cardinality(NodesWithId(st, x))), st)

ExecNodeSet(st, x, key, val) ==
    Answer(MutationResponse,
        [st EXCEPT !.nodes = [n \in 1..Len(st.nodes) |->
            IF n \in NodesWithId(st, x)
            THEN [st.nodes[n] EXCEPT !.props = PutProp(@, key, val)]
            ELSE st.nodes[n]]])

ExecCreateNode(st, label, props) ==
    Answer(MutationResponse,
        [st EXCEPT !.nodes = Append(@, [label |-> label, props |-> props])])

ExecEdgeCount(st, x, y) ==
    Answer(CountResponse(Cardinality(EdgesBetween(st, x, y))), st)

ExecEdgeSet(st, x, type, y, key, val) ==
    Answer(MutationResponse,
        [st EXCEPT !.edges = [e \in 1..Len(st.edges) |->
            IF e \in EdgesBetween(st, x, y) /\ st.edges[e].type = type
            THEN [st.edges[e] EXCEPT !.props = PutProp(@, key, val)]
            ELSE st.edges[e]]])

\* one edge per pair of the source positions xs and the target positions ys
NewEdges(xs, ys, type, props) ==
    [k \in 1..(Len(xs) * Len(ys)) |->
        [src |-> xs[((k - 1) \div Len(ys)) + 1],
         dst |-> ys[((k - 1) % Len(ys)) + 1],
         type |-> type, props |-> props]]

ExecEdgeCreate(st, x, y, type, props) ==
    Answer(MutationResponse,
        [st EXCEPT !.edges = @ \o NewEdges(SetToSeq(NodesWithId(st, x)),
                                           SetToSeq(NodesWithId(st, y)), type, props)])

\* the query texts the engine model interprets; the answer to any other
\* query is not modelled
Interpreted(q) ==
    StartsWith(q, "MATCH (n ") \/ StartsWith(q, "CREATE (n:") \/ StartsWith(q, "MATCH (a ")

\* the answer to the query whose readings under the six forms are given
ExecRead(st, nc, ns, cn, ec, es, ce) ==
    IF nc.ok THEN ExecNodeCount(st, nc.vals[1])
    ELSE IF ns.ok THEN ExecNodeSet(st, ns.vals[1], ns.vals[2].s, ns.vals[3])
    ELSE IF cn.ok THEN ExecCreateNode(st, cn.vals[1].s, cn.vals[2])
    ELSE IF ec.ok THEN ExecEdgeCount(st, ec.vals[1], ec.vals[2])
    ELSE IF es.ok
         THEN ExecEdgeSet(st, es.vals[1], es.vals[2].s, es.vals[3], es.vals[4].s, es.vals[5])
    ELSE IF ce.ok
         THEN ExecEdgeCreate(st, ce.vals[1], ce.vals[2], ce.vals[3].s, ce.vals[4])
    ELSE Answer(SyntaxErrorResponse, st)

ExecCypher(st, q) ==
    ExecRead(st, NodeCountQuery(q), NodeSetQuery(q), NodeCreateQuery(q),
             EdgeCountQuery(q), EdgeSetQuery(q), EdgeCreateQuery(q))

----------------------------------------------------------------------------
(* The native call surface.  A world w is the database as one public call  *)
(* sees it: [open, ext, store, cache, opaque, calls]; calls lists the      *)
(* native calls issued so far, each with its answer.  A native answer is   *)
(* a string, null, no row (undefined) or a thrown Error.                   *)

Result(out, w) == [out |-> out, w |-> w]

\* the statement sql is prepared and run with args; its answer is pending
Issue(w, sql, args) ==
    [w EXCEPT !.calls = Append(@, [sql |-> sql, args |-> args, resp |-> Undef])]

\* the statement issued last in w1 is answered by resp
Reply(w1, resp) ==
    [resp |-> resp, w |-> [w1 EXCEPT !.calls[Len(w1.calls)].resp = resp]]

\* db.prepare(sql) on a closed handle, or naming a function that is not registered
NativeFailure(w, fn) ==
    IF ~w.open THEN JError("Error", "Cannot use a closed database")
    ELSE JError("Error", "no such function: " \o fn)

\* the statement prepared for a query: one argument, or two with parameters
IssueCypher(w, query, paramsJson) ==
    IF paramsJson = Undef
    THEN Issue(w, "SELECT cypher(?1) as result", <<query>>)
    ELSE Issue(w, "SELECT cypher(?1, ?2) as result", <<query, paramsJson.s>>)

\* the engine's answer a, its store written back
Executed(w1, a) == Reply([w1 EXCEPT !.store = a.store], a.resp)

\* the answer to the statement issued in w1
\* variant of CypherAnswer: a closed handle still answers
CypherAnswerClosed(w, w1, query) ==
    IF ~w.ext THEN Reply(w1, NativeFailure(w, "cypher"))
    ELSE IF Interpreted(query) THEN Executed(w1, ExecCypher(w.store, query))
    ELSE Reply(w1, w.opaque)

CypherAnswer(w, w1, query) ==
    IF ~w.open \/ ~w.ext THEN Reply(w1, NativeFailure(w, "cypher"))
    ELSE IF Interpreted(query) THEN Executed(w1, ExecCypher(w.store, query))
    ELSE Reply(w1, w.opaque)

\* db.prepare("SELECT cypher(?1) as result").get(query), or the two-argument form
NativeCypher(w, query, paramsJson) ==
    CypherAnswer(w, IssueCypher(w, query, paramsJson), query)

\* variant of CacheAnswer: unloading a cache that is not loaded is an error
CacheAnswerLoadedOnly(w, w1, fn, loaded) ==
    IF ~w.open \/ ~w.ext THEN Reply(w1, NativeFailure(w, fn))
    ELSE IF ~loaded /\ ~w.cache THEN Reply(w1, JError("Error", "graph not loaded"))
    ELSE Reply([w1 EXCEPT !.cache = loaded], JNull)

\* the answer to the cache statement issued in w1
CacheAnswer(w, w1, fn, loaded) ==
    IF ~w.open \/ ~w.ext THEN Reply(w1, NativeFailure(w, fn))
    ELSE Reply([w1 EXCEPT !.cache = loaded], JNull)

\* db.prepare("SELECT gql_load_graph()").run() and its siblings
NativeCache(w, fn, loaded) ==
    CacheAnswer(w, Issue(w, "SELECT " \o fn \o "()", <<>>), fn, loaded)

----------------------------------------------------------------------------
(* The Graph class (src/src/graph.ts) *)

IsTruthy(x) ==
    CASE x.t \in {"undef", "null"} -> FALSE
      [] x.t = "bool" -> x.b
      [] x.t = "num" -> x.n # 0
      [] x.t = "str" -> x.s # ""
      [] OTHER -> TRUE

\* x > 0
GreaterThanZero(x) ==
    CASE x.t = "num" -> x.n > 0
      [] x.t = "bool" -> x.b
      [] x.t = "str" -> x.s # "" /\ AllDigits(x.s, 1) /\ StrToNat(x.s, Len(x.s)) > 0
      [] OTHER -> FALSE

NotLoadedError ==
    JError("GraphQLiteError",
           "GraphQLite extension not loaded. Provide extensionPath in constructor options.")

\* variant of NotLoaded: the error is a plain Error
NotLoadedPlain(w) == Result(Throw(JError("Error", NotLoadedError.message)), w)

\* if (!this.extensionLoaded) throw ...
NotLoaded(w) == Result(Throw(NotLoadedError), w)

\* the catch block of cypher and cypherRaw
cypherCatch(error) ==
    IF error.t = "GraphQLiteError" THEN error
    ELSE JError("GraphQLiteError", "Cypher query failed: " \o error.message)

paramsArg(params) ==
    IF IsTruthy(params) THEN JStr(JsonStringify(params)) ELSE Undef

\* variant of cypherRows: an error of the row conversion is not wrapped
cypherRowsUnwrapped(w, rows) == Result(rows, w)

\* return resultToRows<T>(cypherResult), inside the try block
cypherRows(w, rows) ==
    IF rows.ok THEN Result(rows, w) ELSE Result(Throw(cypherCatch(rows.v)), w)

\* const cypherResult = parseCypherResult(result.result), inside the try block
cypherDecoded(w, cypherResult) ==
    IF cypherResult.ok THEN cypherRows(w, resultToRows(cypherResult.v))
    ELSE Result(Throw(cypherCatch(cypherResult.v)), w)

\* the try block of cypher after the native call n
cypherTry(n) ==
    IF n.resp.t \in ErrorClasses THEN Result(Throw(cypherCatch(n.resp)), n.w)
    ELSE IF ~IsTruthy(n.resp) THEN Result(Ok(JArr(<<>>)), n.w)
    ELSE cypherDecoded(n.w, parseCypherResult(n.resp.s))

Graph_cypher(loaded, w, query, params) ==
    IF ~loaded THEN NotLoaded(w)
    ELSE cypherTry(NativeCypher(w, query, paramsArg(params)))

\* return parseCypherResult(result.result), inside the try block
rawDecoded(w, cypherResult) ==
    IF cypherResult.ok THEN Result(cypherResult, w)
    ELSE Result(Throw(cypherCatch(cypherResult.v)), w)

\* the try block of cypherRaw after the native call n
rawTry(n) ==
    IF n.resp.t \in ErrorClasses THEN Result(Throw(cypherCatch(n.resp)), n.w)
    ELSE IF ~IsTruthy(n.resp) THEN Result(Ok(EmptyTable), n.w)
    ELSE rawDecoded(n.w, parseCypherResult(n.resp.s))

Graph_cypherRaw(loaded, w, query, params) ==
    IF ~loaded THEN NotLoaded(w)
    ELSE rawTry(NativeCypher(w, query, paramsArg(params)))

Graph_close(w) == Result(Ok(Undef), [w EXCEPT !.open = FALSE])

\* the prepared statement is run and its answer dropped; a native error
\* propagates as thrown
cacheDone(n) ==
    IF n.resp.t \in ErrorClasses THEN Result(Throw(n.resp), n.w)
    ELSE Result(Ok(Undef), n.w)

cacheCall(w, fn, loaded) == cacheDone(NativeCache(w, fn, loaded))

Graph_loadGraph(w) == cacheCall(w, "gql_load_graph", TRUE)
Graph_unloadGraph(w) == cacheCall(w, "gql_unload_graph", FALSE)
Graph_reloadGraph(w) == cacheCall(w, "gql_reload_graph", TRUE)

\* value.replace(/'/g, "\\'")
escapeQuotes(x) == ReplaceAll(x, "'", "\\'")

\* the query-text form of a property value on the update paths
valStr(value) ==
    CASE value.t = "null" -> "null"
      [] value.t = "str" -> "'" \o escapeQuotes(value.s) \o "'"
      [] value.t = "bool" -> IF value.b THEN "true" ELSE "false"
      [] OTHER -> JsToString(value)

\* one key: value pair of a creation query
propPair(key, value) ==
    CASE value.t = "null" -> key \o ": null"
      [] value.t = "str" -> key \o ": '" \o escapeQuotes(JsToString(value)) \o "'"
      [] value.t = "bool" -> key \o ": " \o (IF value.b THEN "true" ELSE "false")
      [] OTHER -> key \o ": " \o JsToString(value)

propPairs(entries) ==
    JoinStrings([i \in 1..Len(entries) |-> propPair(entries[i].k, entries[i].v)], ", ")

\* checkResult.length > 0 && checkResult[0]?.cnt > 0
countExists(checkResult) ==
    Len(checkResult.items) > 0 /\ GreaterThanZero(Get(checkResult.items[1], "cnt"))

RECURSIVE setEach(_, _, _, _, _)
\* variant of setNext: the loop goes on after a query that threw
setNextAnyway(loaded, r, target, entries, i) ==
    setEach(loaded, r.w, target, entries, i + 1)

\* after the SET query for entry i had the outcome r
setNext(loaded, r, target, entries, i) ==
    IF ~r.out.ok THEN r ELSE setEach(loaded, r.w, target, entries, i + 1)

\* the update loop from entry i on: one SET query per property, stopping at
\* the first that throws
setEach(loaded, w, target, entries, i) ==
    IF i > Len(entries) THEN Result(Ok(Undef), w)
    ELSE setNext(loaded,
                 Graph_cypher(loaded, w,
                    target \o entries[i].k \o " = " \o valStr(entries[i].v), Undef),
                 target, entries, i)

\* the value of a call made for its effect
Discard(r) == IF r.out.ok THEN Result(Ok(Undef), r.w) ELSE r

\* label || 'Entity', relType || 'RELATED'
OrDefault(x, default) == IF IsTruthy(x) THEN x.s ELSE default

\* variant of nodeChecked: the node is created whatever the check found
nodeAlwaysCreated(loaded, check, escapedId, nodeLabel, properties, allProperties) ==
    IF ~check.out.ok THEN check
    ELSE Discard(Graph_cypher(loaded, check.w,
            "CREATE (n:" \o nodeLabel \o " {" \o propPairs(allProperties) \o "})", Undef))

\* upsertNode after the existence check
nodeChecked(loaded, check, escapedId, nodeLabel, properties, allProperties) ==
    IF ~check.out.ok THEN check
    ELSE IF countExists(check.out.v)
         THEN setEach(loaded, check.w, "MATCH (n {id: '" \o escapedId \o "'}) SET n.",
                      ObjectEntries(properties), 1)
    ELSE Discard(Graph_cypher(loaded, check.w,
            "CREATE (n:" \o nodeLabel \o " {" \o propPairs(allProperties) \o "})", Undef))

nodeEscaped(loaded, w, escapedId, nodeLabel, properties, allProperties) ==
    nodeChecked(loaded,
                Graph_cypher(loaded, w,
                    "MATCH (n {id: '" \o escapedId \o "'}) RETURN count(n) as cnt", Undef),
                escapedId, nodeLabel, properties, allProperties)

\* variant of Graph_upsertNode: an id key of the properties map is kept
upsertNodeOwnId(loaded, w, nodeId, properties, label) ==
    IF ~loaded THEN NotLoaded(w)
    ELSE nodeEscaped(loaded, w, escapeQuotes(nodeId), OrDefault(label, "Entity"),
                     properties,
                     IF HasOwn(properties.members, "id") THEN properties.members
                     ELSE SetMember(properties.members, "id", JStr(nodeId)))

Graph_upsertNode(loaded, w, nodeId, properties, label) ==
    IF ~loaded THEN NotLoaded(w)
    ELSE nodeEscaped(loaded, w, escapeQuotes(nodeId), OrDefault(label, "Entity"),
                     properties, SetMember(properties.members, "id", JStr(nodeId)))

\* variant of edgeChecked: the edge is created whatever the check found
edgeAlwaysCreated(loaded, check, escSource, escTarget, relationshipType, properties) ==
    IF ~check.out.ok THEN check
    ELSE Discard(Graph_cypher(loaded, check.w,
                "MATCH (a {id: '" \o escSource \o "'}), (b {id: '" \o escTarget \o "'})"
                    \o " CREATE (a)-[r:" \o relationshipType \o " {"
                    \o propPairs(ObjectEntries(properties)) \o "}]->(b)", Undef))

\* upsertEdge after the existence check
edgeChecked(loaded, check, escSource, escTarget, relationshipType, properties) ==
    IF ~check.out.ok THEN check
    ELSE IF countExists(check.out.v)
         THEN setEach(loaded, check.w,
                "MATCH (a {id: '" \o escSource \o "'})-[r:" \o relationshipType
                    \o "]->(b {id: '" \o escTarget \o "'}) SET r.",
                ObjectEntries(properties), 1)
    ELSE IF Len(ObjectKeys(properties)) > 0
         THEN Discard(Graph_cypher(loaded, check.w,
                "MATCH (a {id: '" \o escSource \o "'}), (b {id: '" \o escTarget \o "'})"
                    \o " CREATE (a)-[r:" \o relationshipType \o " {"
                    \o propPairs(ObjectEntries(properties)) \o "}]->(b)", Undef))
    ELSE Discard(Graph_cypher(loaded, check.w,
                "MATCH (a {id: '" \o escSource \o "'}), (b {id: '" \o escTarget \o "'})"
                    \o " CREATE (a)-[r:" \o relationshipType \o "]->(b)", Undef))

edgeEscaped(loaded, w, escSource, escTarget, relationshipType, properties) ==
    edgeChecked(loaded,
                Graph_cypher(loaded, w,
                    "MATCH (a {id: '" \o escSource \o "'})-[r]->(b {id: '" \o escTarget
                        \o "'}) RETURN count(r) as cnt", Undef),
                escSource, escTarget, relationshipType, properties)

\* variant of Graph_upsertEdge: the two end nodes are upserted first
upsertEdgeWithEnds(loaded, w, sourceId, targetId, properties, relType) ==
    IF ~loaded THEN NotLoaded(w)
    ELSE edgeEscaped(loaded,
            Graph_upsertNode(loaded,
                Graph_upsertNode(loaded, w, sourceId, JObj(<<>>), Undef).w,
                targetId, JObj(<<>>), Undef).w,
            escapeQuotes(sourceId), escapeQuotes(targetId),
            OrDefault(relType, "RELATED"), properties)

Graph_upsertEdge(loaded, w, sourceId, targetId, properties, relType) ==
    IF ~loaded THEN NotLoaded(w)
    ELSE edgeEscaped(loaded, w, escapeQuotes(sourceId), escapeQuotes(targetId),
                     OrDefault(relType, "RELATED"), properties)

\* const id = row.user_id ?? String(row.node_id)
rowId(row) ==
    IF IsNullish(Get(row, "user_id")) THEN JStr(JsToString(Get(row, "node_id")))
    ELSE Get(row, "user_id")

\* if (id && typeof row[field] === 'number') ranks[String(id)] = row[field]
scorePut(ranks, id, value) ==
    IF IsTruthy(id) /\ value.t = "num" THEN SetMember(ranks, JsToString(id), value)
    ELSE ranks

RECURSIVE scoreEntries(_, _, _)
\* the mapping after the first n records
scoreEntries(algoResults, field, n) ==
    IF n = 0 THEN <<>>
    ELSE scorePut(scoreEntries(algoResults, field, n - 1),
                  rowId(algoResults[n]), Get(algoResults[n], field))

\* the mapping built from results[0].column_0; reading row.user_id of a
\* null record throws
scoreMap(algoResults, field) ==
    IF ~IsTruthy(algoResults) \/ algoResults.t # "arr" THEN Ok(JObj(<<>>))
    ELSE IF \E i \in 1..Len(algoResults.items) : IsNullish(algoResults.items[i])
    THEN Throw(JError("TypeError", "null is not an object (evaluating 'row.user_id')"))
    ELSE Ok(JObj(scoreEntries(algoResults.items, field, Len(algoResults.items))))

\* the mapping pagerank and louvain build from the rows of their query
algoMapping(results, field) ==
    IF Len(results.items) > 0
    THEN scoreMap(Get(results.items[1], "column_0"), field)
    ELSE Ok(JObj(<<>>))

\* the catch block of an algorithm adapter around the outcome m
algoCatch(m, w, what) ==
    IF m.ok THEN Result(m, w)
    ELSE Result(Throw(JError("GraphQLiteError", what \o m.v.message)), w)

\* the try block of an algorithm adapter after its query had the outcome r
algoTry(r, what, field) ==
    IF r.out.ok THEN algoCatch(algoMapping(r.out.v, field), r.w, what)
    ELSE algoCatch(r.out, r.w, what)

algoAdapter(loaded, w, query, what, field) ==
    IF ~loaded THEN NotLoaded(w)
    ELSE algoTry(Graph_cypher(loaded, w, query, Undef), what, field)

\* damping and iterations are given by their decimal text
Graph_pagerank(loaded, w, damping, iterations) ==
    algoAdapter(loaded, w, "RETURN pageRank(" \o damping \o ", " \o iterations \o ")",
                "PageRank computation failed: ", "score")

Graph_louvain(loaded, w, resolution) ==
    algoAdapter(loaded, w, "RETURN louvain(" \o resolution \o ")",
                "Louvain computation failed: ", "community")

\* value.replace(/"/g, '\\"')
escapeDoubleQuotes(x) == ReplaceAll(x, "\"", "\\\"")

\* variant of pathMissing: !pathData.found in place of found === false
pathMissingUnlessFound(found, path) ==
    ~IsTruthy(found) \/ ~IsTruthy(path) \/ Get(path, "length") = JNum(0)

\* pathData.found === false || !pathData.path || pathData.path.length === 0
pathMissing(found, path) ==
    found = JBool(FALSE) \/ ~IsTruthy(path) \/ Get(path, "length") = JNum(0)

pathOf(pathData) ==
    IF ~IsTruthy(pathData) THEN JNull
    ELSE IF pathMissing(Get(pathData, "found"), Get(pathData, "path")) THEN JNull
    ELSE JObj(<<Member("path", Get(pathData, "path")),
                Member("distance", Get(pathData, "distance"))>>)

\* the result shortestPath builds from the rows of its query
pathResult(results) ==
    IF Len(results.items) > 0 THEN pathOf(Get(results.items[1], "column_0")) ELSE JNull

\* the try and catch blocks of shortestPath after its query had the outcome r
pathTry(r) ==
    IF r.out.ok THEN Result(Ok(pathResult(r.out.v)), r.w)
    ELSE Result(Throw(JError("GraphQLiteError",
                    "Shortest path computation failed: " \o r.out.v.message)), r.w)

pathQuery(escSource, escTarget, weight) ==
    IF IsTruthy(weight)
    THEN "RETURN dijkstra(\"" \o escSource \o "\", \"" \o escTarget
            \o "\", \"" \o escapeDoubleQuotes(weight.s) \o "\")"
    ELSE "RETURN dijkstra(\"" \o escSource \o "\", \"" \o escTarget \o "\")"

Graph_shortestPath(loaded, w, sourceId, targetId, weight) ==
    IF ~loaded THEN NotLoaded(w)
    ELSE pathTry(Graph_cypher(loaded, w,
                    pathQuery(escapeDoubleQuotes(sourceId), escapeDoubleQuotes(targetId),
                              weight), Undef))

\* variant of Graph_dijkstra: the weight is not handed on
dijkstraUnweighted(loaded, w, sourceId, targetId, weight) ==
    Graph_shortestPath(loaded, w, sourceId, targetId, Undef)

Graph_dijkstra(loaded, w, sourceId, targetId, weight) ==
    Graph_shortestPath(loaded, w, sourceId, targetId, weight)

\* the answer to the statistics statement issued in w1: what the engine is
\* drawn to report, or without such a draw the report of the engine model
StatsAnswer(w, w1) ==
    IF ~w.open \/ ~w.ext THEN Reply(w1, NativeFailure(w, "gql_graph_loaded"))
    ELSE IF w.opaque # Undef THEN Reply(w1, w.opaque)
    ELSE IF w.cache
    THEN Reply(w1, JStr("{\"loaded\":true,\"nodes\":" \o NatToStr(Len(w.store.nodes))
                        \o ",\"edges\":" \o NatToStr(Len(w.store.edges)) \o "}"))
    ELSE Reply(w1, JStr("{\"loaded\":false}"))

\* the native answer of gql_graph_loaded()
NativeStats(w) == StatsAnswer(w, Issue(w, "SELECT gql_graph_loaded() as result", <<>>))

Stats(nodes, edges) == JObj(<<Member("nodes", nodes), Member("edges", edges)>>)

\* x ?? 0
OrZero(x) == IF IsNullish(x) THEN JNum(0) ELSE x

\* the statistics read from the outcome p of JSON.parse
statsParsed(p) ==
    IF ~p.ok \/ IsNullish(p.v) THEN Stats(JNum(0), JNum(0))
    ELSE IF IsTruthy(Get(p.v, "loaded"))
         THEN Stats(OrZero(Get(p.v, "nodes")), OrZero(Get(p.v, "edges")))
    ELSE Stats(JNum(0), JNum(0))

\* variant of statsTry: a native error is thrown on
statsRethrows(n) ==
    IF n.resp.t \in ErrorClasses THEN Result(Throw(n.resp), n.w)
    ELSE IF ~IsTruthy(n.resp) THEN Result(Ok(Stats(JNum(0), JNum(0))), n.w)
    ELSE Result(Ok(statsParsed(JsonParse(n.resp.s))), n.w)

\* the try and catch blocks of getStats after the native call n
statsTry(n) ==
    IF n.resp.t \in ErrorClasses \/ ~IsTruthy(n.resp)
    THEN Result(Ok(Stats(JNum(0), JNum(0))), n.w)
    ELSE Result(Ok(statsParsed(JsonParse(n.resp.s))), n.w)

Graph_getStats(w) == statsTry(NativeStats(w))

----------------------------------------------------------------------------
(* Construction (src/src/utils.ts 84-136, src/src/graph.ts 34-97) *)

\* The host of a construction: the value of GRAPHQLITE_EXTENSION_PATH,
\* process.platform and the paths fs.existsSync finds, named as the program
\* names them.  What the native layer does is drawn: whether the database
\* opens, what the PRAGMA, db.loadExtension and the probe answer.

getLibraryExtension(platform) ==
    IF platform = "darwin" THEN ".dylib"
    ELSE IF platform = "win32" THEN ".dll"
    ELSE ".so"

searchPaths(libName) ==
    << "./build/" \o libName, "./native/" \o libName,
       "/usr/local/lib/" \o libName, "/usr/lib/" \o libName >>

RECURSIVE firstExisting(_, _, _)
\* for (const path of searchPaths) if (fs.existsSync(path)) return path
firstExisting(paths, files, i) ==
    IF i > Len(paths) THEN JNull
    ELSE IF paths[i] \in files THEN JStr(paths[i])
    ELSE firstExisting(paths, files, i + 1)

\* variant of resolveExtensionPath: the environment variable goes first
resolveEnvFirst(customPath, host) ==
    IF IsTruthy(host.env) THEN host.env
    ELSE IF IsTruthy(customPath) THEN customPath
    ELSE firstExisting(searchPaths("graphqlite" \o getLibraryExtension(host.platform)),
                       host.files, 1)

resolveExtensionPath(customPath, host) ==
    IF IsTruthy(customPath) THEN customPath
    ELSE IF IsTruthy(host.env) THEN host.env
    ELSE firstExisting(searchPaths("graphqlite" \o getLibraryExtension(host.platform)),
                       host.files, 1)

Cwd == "/cwd"

\* path.isAbsolute(p) ? p : path.resolve(process.cwd(), p)
absolutePath(p) ==
    IF StartsWith(p, "/") THEN p
    ELSE IF StartsWith(p, "./") THEN Cwd \o SubSeq(p, 2, Len(p))
    ELSE Cwd \o "/" \o p

\* the catch block of loadExtension
loadCatch(extensionPath, error) ==
    IF error.t = "GraphQLiteError" THEN error
    ELSE JError("GraphQLiteError",
                "Failed to load extension from " \o extensionPath \o ": " \o error.message)

\* variant of probeChecked: every answer text verifies
probeAnyText(extensionPath, result) ==
    IF IsNullish(result) THEN Throw(JError("GraphQLiteError",
                                           "Extension loaded but verification failed"))
    ELSE IF result.t # "str"
    THEN Throw(loadCatch(extensionPath,
                JError("TypeError", "testResult?.result?.includes is not a function")))
    ELSE Ok(Undef)

\* if (testResult?.result?.includes('successfully')) ... else throw
probeChecked(extensionPath, result) ==
    IF IsNullish(result) THEN Throw(JError("GraphQLiteError",
                                           "Extension loaded but verification failed"))
    ELSE IF result.t # "str"
    THEN Throw(loadCatch(extensionPath,
                JError("TypeError", "testResult?.result?.includes is not a function")))
    ELSE IF Includes(result.s, "successfully") THEN Ok(Undef)
    ELSE Throw(JError("GraphQLiteError", "Extension loaded but verification failed"))

\* loadExtension: its outcome; the flag is set exactly when it returns
loadExtension(extensionPath, host, native) ==
    IF extensionPath \notin host.files
    THEN Throw(JError("GraphQLiteError",
                      "Extension file not found: " \o absolutePath(extensionPath)))
    ELSE IF native.load.t \in ErrorClasses THEN Throw(loadCatch(extensionPath, native.load))
    ELSE IF native.probe.t \in ErrorClasses
    THEN Throw(loadCatch(extensionPath, native.probe))
    ELSE probeChecked(extensionPath, native.probe)

\* the outcome of new Graph(..), whether its handle is open afterwards,
\* the flag, and whether console.warn was called
Constructed(out, open, warned) ==
    [out |-> out, open |-> open, loaded |-> open /\ out.ok, warned |-> warned]

\* the constructor once the path is resolved
constructResolved(extensionPath, host, native, warned) ==
    IF IsTruthy(extensionPath)
    THEN Constructed(loadExtension(extensionPath.s, host, native), TRUE, warned)
    ELSE [out |-> Ok(Undef), open |-> TRUE, loaded |-> FALSE, warned |-> warned]

Graph_constructor(options, host, native) ==
    IF ~native.opens
    THEN [out |-> Throw(JError("Error", "unable to open database file")),
          open |-> FALSE, loaded |-> FALSE, warned |-> FALSE]
    ELSE constructResolved(resolveExtensionPath(options.extensionPath, host), host, native,
                           /\ options.enableLoadExtension # JBool(FALSE)
                           /\ native.pragma.t \in ErrorClasses)

----------------------------------------------------------------------------
(* Inputs *)

MaxNodes == 2
MaxEdges == 1

S(x) == JStr(x)
N(x) == JNum(x)

\* column lists and row lists of the canonical tables the native layer may send
TableColumns ==
    { <<>>, <<S("a")>>, <<S("a"), S("b")>>, <<S("a"), S("a")>>, <<S("1"), S("a")>>,
      <<S("successfully")>>, <<S("Query executed successfully")>> }

TableData ==
    { <<>>,
      <<JArr(<<N(1)>>)>>,
      <<JArr(<<N(1), N(2)>>)>>,
      <<JArr(<<N(1)>>), JArr(<<N(2), N(3)>>)>>,
      <<JArr(<<N(1), N(2), N(3)>>)>>,
      <<JArr(<<JNull, JBool(TRUE)>>)>>,
      <<JArr(<<S("Error: x")>>)>>,
      <<JArr(<<S("a \"quoted\" \\ value")>>)>>,
      <<JArr(<<S("saved successfully")>>)>>,
      <<JArr(<<S("Query executed successfully")>>)>> }

Tables == {Table(JArr(c), JArr(d)) : c \in TableColumns, d \in TableData}

\* responses that are not JSON
PlainResponses ==
    { "Error", "Error: syntax error", "Error: not executed successfully",
      "Error: Query executed successfully", "Query executed successfully",
      "Query executed successfully: 1 node created", "Nodes created successfully",
      "successfully", "INVALID", "error: lower case", "{", "[1,", "nul",
      "{\"columns\":[" }

\* JSON responses that are no table and no list of objects
ScalarResponses ==
    { "null", "true", "7", "0", "\"hello\"", "\"Error\"", "\"Error: bad\"",
      "\"Error: not successfully\"", "\"Error: Query executed successfully\"",
      "\"done successfully\"", " \"Error: padded\" ", "{}", "[]", "[1,2]", "[null]",
      "[\"xy\"]", "{\"columns\":[\"a\"]}" }

\* JSON lists whose first element is an object or a list
ListResponses ==
    { "[{}]", "[{},null]", "[{\"a\":1},null]", "[{\"a\":\"successfully\"},null]",
      "[[1,2],[3]]", "[{\"a\":1,\"b\":2},{\"b\":3}]", "[{\"b\":1,\"0\":2}]",
      "[{\"b\":1,\"10\":2,\"9\":3},{\"9\":4}]",
      "[{\"a\":1},{\"a\":2,\"c\":3}]", "[{\"a\":null}]", "[{\"a\":1,\"a\":2}]",
      "[{\"a\":\"Query executed successfully\"}]", "[{\"a\":\"it went successfully\"}]",
      "[{\"a\":1},5]", "[{\"0\":1,\"length\":2},\"xy\"]", "[{\"cnt\":1}]",
      "[ {\"name\":\"Alice\",\"age\":30} , {\"name\":\"Bob\"} ]" }

\* objects with a columns and a data member that are no well-formed table
OddTableResponses ==
    { "{\"columns\":1,\"data\":2}", "{\"columns\":[\"a\"],\"data\":[null]}",
      "{\"columns\":[],\"data\":[null]}", "{\"columns\":[\"a\"],\"data\":\"xy\"}",
      "{\"columns\":[\"a\",\"b\"],\"data\":[\"xy\",5,{\"0\":7}]}",
      "{\"columns\":\"ab\",\"data\":[[1]]}", "{\"columns\":null,\"data\":[]}",
      "{\"columns\":null,\"data\":null}",
      "{\"data\":[[1]],\"columns\":[\"a\"],\"extra\":1}",
      "{\"columns\":[1,null,[2]],\"data\":[[1,2,3]]}" }

RawStrings ==
    {""} \cup PlainResponses \cup ScalarResponses \cup ListResponses
         \cup OddTableResponses \cup {JsonStringify(t) : t \in Tables}

\* what stmt.get() may hand back: no row, a null result, a string, a thrown error
RawResponses ==
    {Undef, JNull, JError("Error", "SQL logic error")} \cup {JStr(r) : r \in RawStrings}

\* the answers drawn for the algorithm queries and the other uninterpreted
\* queries: no row, a thrown error, a list of records, a path record
GraphResponses ==
    { Undef, JError("Error", "SQL logic error"),
      S("[{\"column_0\":[{\"node_id\":1,\"user_id\":\"a\",\"score\":1,\"community\":0},{\"node_id\":2,\"score\":2,\"community\":1}]}]"),
      S("[{\"column_0\":{\"path\":[\"a\",\"b\"],\"distance\":1,\"found\":true}}]") }

\* the native answer to a single-column query whose one row holds x
ColumnAnswer(x) == S(JsonStringify(JArr(<<JObj(<<Member("column_0", x)>>)>>)))

\* a per-node record of pageRank() and louvain()
ScoreRecord(nodeId, userId, score, community) ==
    JObj(<<Member("node_id", nodeId), Member("user_id", userId),
           Member("score", score), Member("community", community)>>)

\* the values pageRank() and louvain() may place in column_0: lists of
\* records with and without user_id, with equal ids, with an empty or a
\* numeric user_id, with a score that is no number, lists whose elements are
\* no records, and values that are no list
ScoreValues ==
    { JArr(<<>>),
      JArr(<<ScoreRecord(N(1), S("a"), N(1), N(0)), ScoreRecord(N(2), S("b"), N(2), N(1))>>),
      JArr(<<ScoreRecord(N(1), JNull, N(3), N(2)),
             JObj(<<Member("node_id", N(2)), Member("score", N(0)),
                    Member("community", N(0))>>)>>),
      JArr(<<ScoreRecord(N(1), S("a"), N(1), N(0)), ScoreRecord(N(2), S("a"), N(2), N(1))>>),
      JArr(<<ScoreRecord(N(1), S("2"), N(1), N(0)), ScoreRecord(N(2), JNull, N(2), N(1))>>),
      JArr(<<ScoreRecord(N(1), S(""), N(1), N(1))>>),
      JArr(<<ScoreRecord(N(1), N(0), N(1), N(1)), ScoreRecord(N(2), N(5), N(2), N(2))>>),
      JArr(<<ScoreRecord(N(1), S("a"), S("1"), S("0")), ScoreRecord(N(2), S("b"), JNull, JNull)>>),
      JArr(<<JObj(<<Member("score", N(1)), Member("community", N(1))>>)>>),
      JArr(<<JObj(<<>>)>>),
      JArr(<<JNull>>),
      JArr(<<ScoreRecord(N(1), S("a"), N(1), N(0)), JNull>>),
      JArr(<<N(5), S("xy"), JBool(TRUE)>>),
      JArr(<<JArr(<<N(1)>>)>>),
      JNull, N(0), N(7), S(""), S("xy"), JBool(FALSE), JObj(<<>>),
      ScoreRecord(N(1), S("a"), N(1), N(0)) }

\* what the engine may answer to RETURN pageRank(..) and RETURN louvain(..):
\* no row, a thrown error, an error text, a text that is no JSON, no rows, a
\* row without column_0, and a row holding each of the values above
ScoreResponses ==
    { Undef, JNull, JError("Error", "SQL logic error"), S("Error: no such function"),
      S("Query executed successfully"), S("{"), S("[]"), S("[{}]"), S("[null]") }
        \cup {ColumnAnswer(x) : x \in ScoreValues}

\* a path record of dijkstra()
PathRecord(path, distance, found) ==
    JObj(<<Member("path", path), Member("distance", distance), Member("found", found)>>)

\* the values dijkstra() may place in column_0: records with a path and with
\* none, with and without a distance and a found flag, and values that are
\* no record
PathValues ==
    { PathRecord(JArr(<<S("a"), S("b")>>), N(1), JBool(TRUE)),
      PathRecord(JArr(<<S("a"), S("b")>>), N(1), JBool(FALSE)),
      PathRecord(JArr(<<>>), N(0), JBool(TRUE)),
      PathRecord(JArr(<<>>), JNull, JBool(FALSE)),
      PathRecord(JNull, JNull, JBool(FALSE)),
      PathRecord(JNull, N(3), JBool(TRUE)),
      PathRecord(JArr(<<S("a")>>), JNull, JNull),
      PathRecord(JArr(<<S("a"), S("c"), S("b")>>), N(8), N(0)),
      JObj(<<Member("path", JArr(<<S("a"), S("b")>>))>>),
      JObj(<<Member("path", JArr(<<S("a"), S("b")>>)), Member("distance", N(2))>>),
      JObj(<<Member("path", JArr(<<>>))>>),
      JObj(<<Member("found", JBool(TRUE))>>),
      JObj(<<Member("distance", N(2)), Member("found", JBool(FALSE))>>),
      JObj(<<>>),
      JObj(<<Member("path", S("")), Member("found", JBool(TRUE))>>),
      JObj(<<Member("path", S("ab")), Member("distance", S("1"))>>),
      JObj(<<Member("path", N(0))>>),
      JNull, N(0), S(""), S("ab"), JBool(TRUE), JArr(<<>>), JArr(<<S("a"), S("b")>>) }

\* what the engine may answer to RETURN dijkstra(..)
PathResponses ==
    { Undef, JNull, JError("Error", "SQL logic error"), S("Error: no such function"),
      S("Query executed successfully"), S("{"), S("[]"), S("[{}]"), S("[null]") }
        \cup {ColumnAnswer(x) : x \in PathValues}

\* what gql_graph_loaded() may report: the report of the engine model
\* (Undef), a null or empty result, a thrown error, texts that are no JSON
\* or no object, and reports with and without the flag and the counts
StatsResponses ==
    { Undef, JNull, S(""), JError("Error", "SQL logic error"), S("{"), S("Error: x"),
      S("null"), S("7"), S("[]"), S("{}"),
      S("{\"loaded\":true,\"nodes\":2,\"edges\":1}"),
      S("{\"loaded\":true}"),
      S("{\"loaded\":true,\"nodes\":null,\"edges\":3}"),
      S("{\"loaded\":false,\"nodes\":2,\"edges\":1}"),
      S("{\"nodes\":2,\"edges\":1}"),
      S("{\"loaded\":1,\"nodes\":2,\"edges\":1}"),
      S("{\"loaded\":null,\"nodes\":2,\"edges\":1}") }

\* the hosts and the native outcomes of a construction
CustomPaths == {Undef, S(""), S("/custom/g.so"), S("lib/g.so")}
EnvPaths == {Undef, S(""), S("/env/g.so")}
Platforms == {"linux", "darwin", "win32"}
FileSets ==
    { {}, {"/custom/g.so"}, {"/env/g.so", "lib/g.so"}, {"./build/graphqlite.so"},
      {"./native/graphqlite.so", "/usr/lib/graphqlite.so"},
      {"/usr/local/lib/graphqlite.dylib", "/usr/lib/graphqlite.dll"},
      {"/custom/g.so", "/env/g.so", "./build/graphqlite.so", "/usr/lib/graphqlite.so"} }
Hosts == [env : EnvPaths, platform : Platforms, files : FileSets]
ProbeAnswers ==
    { Undef, JNull, S("GraphQLite extension loaded successfully"), S("failed"), N(1),
      JError("Error", "no such function: graphqlite_test") }
Native(opens, pragma, load, probe) ==
    [opens |-> opens, pragma |-> pragma, load |-> load, probe |-> probe]
Natives ==
    { Native(FALSE, JNull, JNull, Undef),
      Native(TRUE, JNull, JError("Error", "not authorized"), Undef),
      Native(TRUE, JError("Error", "not authorized"), JError("Error", "not authorized"),
             Undef),
      Native(TRUE, JError("Error", "not authorized"), JNull,
             S("GraphQLite extension loaded successfully")) }
        \cup {Native(TRUE, JNull, JNull, probe) : probe \in ProbeAnswers}
GraphOptions == [extensionPath : CustomPaths, enableLoadExtension : {Undef, JBool(FALSE)}]

Queries == {"MATCH (n) RETURN n", "MATCH (n {id: 'a'}) RETURN count(n) as cnt"}
ParamChoices == {Undef, JObj(<<Member("name", S("Alice"))>>)}

NodeIds == {"a", "b"}
Labels == {Undef}
RelTypes == {S("KNOWS")}
PropertyMaps ==
    { JObj(<<>>),
      JObj(<<Member("name", S("O'Re")), Member("age", N(30))>>) }
NumberTexts == {"0.85"}
TargetIds == {"b"}
Weights == {Undef, S("cost")}

\* the inputs of the upsert sequences: maps that share keys, differ in keys,
\* carry an id key of their own, and hold between two other values a quote
\* before a final backslash
UpsertLabels == {Undef, S(""), S("Person")}
UpsertMaps ==
    { JObj(<<Member("name", S("O'Re")), Member("age", N(30))>>),
      JObj(<<Member("age", N(31))>>),
      JObj(<<Member("age", JNull)>>),
      JObj(<<Member("id", S("b"))>>),
      JObj(<<Member("age", N(32)), Member("name", S("'\\")), Member("city", S("x"))>>) }

EdgeTypes == {Undef, S("KNOWS"), S("LIKES")}
EdgeMaps ==
    { JObj(<<>>),
      JObj(<<Member("since", N(2020))>>),
      JObj(<<Member("since", N(2021)), Member("note", S("A's"))>>) }

----------------------------------------------------------------------------
(* The state machine.  The library is synchronous and single-threaded:     *)
(* each public call is one step, made by a caller that has taken the       *)
(* outcome of its previous call.                                           *)

NoCall ==
    [op |-> "none", args |-> <<>>, answer |-> Undef, out |-> Ok(Undef), calls |-> <<>>]

\* the database as the next call finds it, answer being what the engine
\* returns for a query the engine model does not interpret; the extension's
\* functions are registered exactly when the constructor loaded it
World(answer) ==
    [open |-> dbOpen, ext |-> extensionLoaded, store |-> store,
     cache |-> cacheLoaded, opaque |-> answer, calls |-> <<>>]

\* the state after construction: the extension loaded or no path resolved
Init ==
    /\ extensionLoaded \in BOOLEAN
    /\ dbOpen = TRUE
    /\ store = EmptyStore
    /\ cacheLoaded = FALSE
    /\ last = NoCall

\* the decoder and the query facade with the extension loaded
InitDecoder ==
    /\ extensionLoaded = TRUE
    /\ dbOpen = TRUE
    /\ store = EmptyStore
    /\ cacheLoaded = FALSE
    /\ last = NoCall

\* the call op(args) has the result r
Step(op, args, answer, r) ==
    /\ Len(r.w.store.nodes) <= MaxNodes
    /\ Len(r.w.store.edges) <= MaxEdges
    /\ last' = [op |-> op, args |-> args, answer |-> answer,
                out |-> r.out, calls |-> r.w.calls]
    /\ store' = r.w.store
    /\ cacheLoaded' = r.w.cache
    /\ dbOpen' = r.w.open
    /\ UNCHANGED extensionLoaded

\* the caller is ready for its next call
Idle == last.op = "none"

cypherOver(answers) ==
    \E query \in Queries, params \in ParamChoices, answer \in answers :
        /\ Idle
        /\ Step("cypher", <<S(query), params>>, answer,
                Graph_cypher(extensionLoaded, World(answer), query, params))

cypherRawOver(answers) ==
    \E query \in Queries, params \in ParamChoices, answer \in answers :
        /\ Idle
        /\ Step("cypherRaw", <<S(query), params>>, answer,
                Graph_cypherRaw(extensionLoaded, World(answer), query, params))

cypher == cypherOver(GraphResponses)

cypherRaw == cypherRawOver(GraphResponses)

close ==
    /\ Idle
    /\ Step("close", <<>>, Undef, Graph_close(World(Undef)))

getStats ==
    \E answer \in StatsResponses :
        /\ Idle
        /\ Step("getStats", <<>>, answer, Graph_getStats(World(answer)))

loadGraph ==
    /\ Idle
    /\ Step("loadGraph", <<>>, Undef, Graph_loadGraph(World(Undef)))

unloadGraph ==
    /\ Idle
    /\ Step("unloadGraph", <<>>, Undef, Graph_unloadGraph(World(Undef)))

reloadGraph ==
    /\ Idle
    /\ Step("reloadGraph", <<>>, Undef, Graph_reloadGraph(World(Undef)))

upsertNode ==
    \E nodeId \in NodeIds, properties \in PropertyMaps, label \in Labels :
        /\ Idle
        /\ Step("upsertNode", <<S(nodeId), properties, label>>, Undef,
                Graph_upsertNode(extensionLoaded, World(Undef), nodeId, properties, label))

upsertEdge ==
    \E sourceId \in NodeIds, targetId \in NodeIds, properties \in PropertyMaps,
       relType \in RelTypes :
        /\ Idle
        /\ Step("upsertEdge", <<S(sourceId), S(targetId), properties, relType>>, Undef,
                Graph_upsertEdge(extensionLoaded, World(Undef), sourceId, targetId,
                                 properties, relType))

pagerankOver(answers) ==
    \E damping \in NumberTexts, answer \in answers :
        /\ Idle
        /\ Step("pagerank", <<S(damping), S("20")>>, answer,
                Graph_pagerank(extensionLoaded, World(answer), damping, "20"))

pagerank == pagerankOver(GraphResponses)

louvainOver(answers) ==
    \E resolution \in NumberTexts, answer \in answers :
        /\ Idle
        /\ Step("louvain", <<S(resolution)>>, answer,
                Graph_louvain(extensionLoaded, World(answer), resolution))

louvain == louvainOver(GraphResponses)

shortestPathOver(answers) ==
    \E sourceId \in NodeIds, targetId \in TargetIds, weight \in Weights,
       answer \in answers :
        /\ Idle
        /\ Step("shortestPath", <<S(sourceId), S(targetId), weight>>, answer,
                Graph_shortestPath(extensionLoaded, World(answer), sourceId, targetId,
                                   weight))

shortestPath == shortestPathOver(GraphResponses)

dijkstraOver(answers) ==
    \E sourceId \in NodeIds, targetId \in TargetIds, weight \in Weights,
       answer \in answers :
        /\ Idle
        /\ Step("dijkstra", <<S(sourceId), S(targetId), weight>>, answer,
                Graph_dijkstra(extensionLoaded, World(answer), sourceId, targetId, weight))

dijkstra == dijkstraOver(GraphResponses)

\* the caller takes the outcome of its call
resume ==
    /\ ~Idle
    /\ last' = NoCall
    /\ UNCHANGED <<extensionLoaded, dbOpen, store, cacheLoaded>>

Next ==
    \/ cypher \/ cypherRaw \/ close \/ getStats
    \/ loadGraph \/ unloadGraph \/ reloadGraph
    \/ upsertNode \/ upsertEdge
    \/ pagerank \/ louvain \/ shortestPath \/ dijkstra
    \/ resume

Spec == Init /\ [][Next]_vars

\* cypher on every native response
decodeCypher == cypherOver(RawResponses)

\* cypherRaw on every native response
decodeCypherRaw == cypherRawOver(RawResponses)

\* the exported decoder applied to a native string
decode ==
    \E raw \in RawStrings :
        /\ Idle
        /\ Step("parseCypherResult", <<S(raw)>>, Undef,
                Result(parseCypherResult(raw), World(Undef)))

\* the exported row conversion applied to the table just decoded
toRows ==
    /\ last.op = "parseCypherResult"
    /\ last.out.ok
    /\ Step("resultToRows", <<last.out.v>>, Undef,
            Result(resultToRows(last.out.v), World(Undef)))

NextDecoder == decodeCypher \/ decodeCypherRaw \/ decode \/ toRows \/ resume

SpecDecoder == InitDecoder /\ [][NextDecoder]_vars

\* the algorithm adapters on every answer of the engine's algorithm
\* functions, with the extension loaded
pagerankScores == pagerankOver(ScoreResponses)

louvainScores == louvainOver(ScoreResponses)

shortestPathRecords == shortestPathOver(PathResponses)

dijkstraRecords == dijkstraOver(PathResponses)

NextAlgo ==
    \/ pagerankScores \/ louvainScores \/ shortestPathRecords \/ dijkstraRecords
    \/ resume

SpecAlgo == InitDecoder /\ [][NextAlgo]_vars

\* before new Graph(..): no handle is open
InitOpen ==
    /\ extensionLoaded = FALSE
    /\ dbOpen = FALSE
    /\ store = EmptyStore
    /\ cacheLoaded = FALSE
    /\ last = NoCall

\* the call of the constructor has the result r
Opened(options, host, native, r) ==
    /\ last' = [op |-> "constructor", args |-> <<options>>, answer |-> Undef,
                out |-> r.out, calls |-> <<>>, host |-> host, native |-> native,
                warned |-> r.warned]
    /\ dbOpen' = r.open
    /\ extensionLoaded' = r.loaded
    /\ UNCHANGED <<store, cacheLoaded>>

construct ==
    \E options \in GraphOptions, host \in Hosts, native \in Natives :
        /\ Idle
        /\ ~dbOpen
        /\ Opened(options, host, native, Graph_constructor(options, host, native))

\* the exported path resolution
resolve ==
    \E customPath \in CustomPaths, host \in Hosts :
        /\ Idle
        /\ last' = [op |-> "resolveExtensionPath", args |-> <<customPath>>,
                    answer |-> Undef, out |-> Ok(resolveExtensionPath(customPath, host)),
                    calls |-> <<>>, host |-> host]
        /\ UNCHANGED <<extensionLoaded, dbOpen, store, cacheLoaded>>

NextOpen == construct \/ resolve \/ resume

SpecOpen == InitOpen /\ [][NextOpen]_vars

----------------------------------------------------------------------------
(* Properties of the extension guard (Spec) *)

GuardedOps ==
    {"cypher", "cypherRaw", "upsertNode", "upsertEdge", "pagerank", "louvain",
     "shortestPath", "dijkstra"}

CacheOps == {"loadGraph", "unloadGraph", "reloadGraph"}

\* C1: while extensionLoaded is false, each of cypher, cypherRaw, upsertNode,
\* upsertEdge, pagerank, louvain, shortestPath and dijkstra raises the
\* GraphQLiteError "extension not loaded", issues no native call and leaves
\* the stored graph and the flag as they were.
C1_GuardedOpsRaiseNotLoaded ==
    [][(~extensionLoaded /\ last'.op \in GuardedOps)
          => /\ last'.out = Throw(NotLoadedError)
             /\ last'.calls = <<>>
             /\ store' = store
             /\ cacheLoaded' = cacheLoaded
             /\ extensionLoaded' = extensionLoaded]_vars

\* a guarded call was made without the extension and raised
C1_Witness ==
    /\ ~extensionLoaded
    /\ last.op = "upsertEdge"
    /\ last.out = Throw(NotLoadedError)
    /\ last.calls = <<>>

\* C2: while extensionLoaded is false, loadGraph, unloadGraph and reloadGraph
\* fail with the not-loaded error before any native call is issued.
C2_CacheOpsRaiseNotLoaded ==
    (~extensionLoaded /\ last.op \in CacheOps)
        => (last.out = Throw(NotLoadedError) /\ last.calls = <<>>)

----------------------------------------------------------------------------
(* Properties of the query facade and the decoder (SpecDecoder) *)

\* what cypherRaw does for the arguments and the native answer of call
RawOf(call) ==
    Graph_cypherRaw(extensionLoaded, World(call.answer), call.args[1].s, call.args[2])

\* the single native answer of a cypher or cypherRaw call is a string
AnsweredString(call) ==
    /\ call.op \in {"cypher", "cypherRaw"}
    /\ Len(call.calls) = 1
    /\ call.calls[1].resp.t = "str"

NativeString(call) == call.calls[1].resp.s

\* C3 as stated: cypher returns exactly resultToRows(cypherRaw(...)) whenever
\* cypherRaw returns, raises the same error exactly when cypherRaw raises,
\* and both issue the same single native call.
C3_CypherIsRowsOfRaw ==
    [][last'.op = "cypher"
          => /\ last'.calls = RawOf(last').w.calls
             /\ Len(last'.calls) = 1
             /\ RawOf(last').out.ok
                   => (last'.out.ok /\ last'.out = resultToRows(RawOf(last').out.v))
             /\ ~RawOf(last').out.ok => last'.out = RawOf(last').out]_vars

\* the outcome of cypher given the outcome raw of cypherRaw: the rows of the
\* table, the wrapped error of the row conversion, or the error of cypherRaw
RowsOrWrapped(raw, rows) ==
    IF ~raw.ok THEN raw
    ELSE IF rows.ok THEN rows
    ELSE Throw(JError("GraphQLiteError", "Cypher query failed: " \o rows.v.message))

\* C3 amended: cypher and cypherRaw issue the same single native call; when
\* cypherRaw raises, cypher raises the same error; when cypherRaw returns a
\* table resultToRows converts, cypher returns those rows; when cypherRaw
\* returns a value resultToRows raises on, cypher raises the GraphQLiteError
\* "Cypher query failed: " followed by the message of that error.
C3_CypherIsRowsOfRawOrWrapped ==
    [][last'.op = "cypher"
          => /\ last'.calls = RawOf(last').w.calls
             /\ Len(last'.calls) = 1
             /\ last'.out = RowsOrWrapped(RawOf(last').out,
                                          IF RawOf(last').out.ok
                                          THEN resultToRows(RawOf(last').out.v)
                                          ELSE RawOf(last').out)]_vars

\* cypher returned the rows of a table with data
C3_Witness ==
    /\ AnsweredString(last)
    /\ last.op = "cypher"
    /\ last.out.ok
    /\ Len(last.out.v.items) > 0
    /\ Len(ObjectKeys(last.out.v.items[1])) > 1

\* C4: a native response that is a raw string beginning with 'Error' makes
\* parseCypherResult raise an error whose message is that string verbatim,
\* whatever else it contains, and makes cypher and cypherRaw raise a
\* GraphQLiteError carrying that string; no rows and no table are returned.
C4_ErrorMarkerRaises ==
    /\ (last.op = "parseCypherResult" /\ StartsWith(last.args[1].s, "Error"))
          => last.out = Throw(JError("Error", last.args[1].s))
    /\ (AnsweredString(last) /\ StartsWith(NativeString(last), "Error"))
          => /\ ~last.out.ok
             /\ last.out.v.t = "GraphQLiteError"
             /\ Includes(last.out.v.message, NativeString(last))

\* cypher raised on an error response that also holds the success message
C4_Witness ==
    /\ AnsweredString(last)
    /\ last.op = "cypher"
    /\ NativeString(last) = "Error: Query executed successfully"
    /\ ~last.out.ok
    /\ last.out.v.t = "GraphQLiteError"

\* the raw string of a parseCypherResult call parses as JSON
ParsesAsJson(call) == call.op = "parseCypherResult" /\ JsonParse(call.args[1].s).ok

ParsedOf(call) == JsonParse(call.args[1].s).v

\* C5: a raw response that is valid JSON whose parsed value is a string
\* beginning with 'Error' makes parseCypherResult raise an error carrying
\* that parsed string; it never returns a table.
C5_ParsedErrorStringRaises ==
    (/\ ParsesAsJson(last)
     /\ ParsedOf(last).t = "str"
     /\ StartsWith(ParsedOf(last).s, "Error"))
        => last.out = Throw(JError("Error", ParsedOf(last).s))

\* C6: when JSON parsing of the raw response fails and the raw string holds
\* no success marker, parseCypherResult raises an error whose message
\* includes the raw string.
C6_MalformedRaisesWithPayload ==
    (/\ last.op = "parseCypherResult"
     /\ ~JsonParse(last.args[1].s).ok
     /\ ~Includes(last.args[1].s, "successfully"))
        => (~last.out.ok /\ Includes(last.out.v.message, last.args[1].s))

\* raw is no JSON, does not begin with 'Error' and holds a success marker
PlainSuccess(raw) ==
    /\ ~JsonParse(raw).ok
    /\ ~StartsWith(raw, "Error")
    /\ (Includes(raw, "Query executed successfully") \/ Includes(raw, "successfully"))

\* C7: for a raw response that is not JSON, does not begin with 'Error' and
\* holds 'Query executed successfully' or 'successfully', parseCypherResult
\* returns the empty table and cypher returns an empty row list.
C7_PlainSuccessIsEmpty ==
    /\ (last.op = "parseCypherResult" /\ PlainSuccess(last.args[1].s))
          => last.out = Ok(EmptyTable)
    /\ (AnsweredString(last) /\ last.op = "cypher" /\ PlainSuccess(NativeString(last)))
          => last.out = Ok(JArr(<<>>))

\* cypher returned no rows for a success message of another wording
C7_Witness ==
    /\ AnsweredString(last)
    /\ last.op = "cypher"
    /\ NativeString(last) = "Nodes created successfully"
    /\ last.out = Ok(JArr(<<>>))

\* x is an object with a columns and a data member
HasTableShape(x) ==
    x.t = "obj" /\ HasProperty(x, "columns") /\ HasProperty(x, "data")

\* C8: a raw response that parses as a JSON object with a columns and a data
\* member is returned as parsed, so parseCypherResult(JSON.stringify(T)) is T
\* for every table T, whatever its column names and cells hold.
C8_TablePassesThrough ==
    /\ (ParsesAsJson(last) /\ HasTableShape(ParsedOf(last)))
          => last.out = Ok(ParsedOf(last))
    /\ \A T \in Tables :
          (last.op = "parseCypherResult" /\ last.args[1].s = JsonStringify(T))
              => last.out = Ok(T)

\* every row of the table x has as many values as x has columns
RowsMatchColumns(x) ==
    /\ HasTableShape(x)
    /\ Get(x, "columns").t = "arr"
    /\ Get(x, "data").t = "arr"
    /\ \A i \in 1..Len(Get(x, "data").items) :
          /\ Get(x, "data").items[i].t = "arr"
          /\ Len(Get(x, "data").items[i].items) = Len(Get(x, "columns").items)

\* the call returned a table decoded from a native string
DecodedTable(call) ==
    /\ call.out.ok
    /\ \/ call.op = "parseCypherResult"
       \/ AnsweredString(call) /\ call.op = "cypherRaw"

RawString(call) ==
    IF call.op = "parseCypherResult" THEN call.args[1].s ELSE NativeString(call)

\* C9 as stated: every table parseCypherResult, and so cypherRaw, returns has
\* rows with exactly as many values as there are columns.
C9_RowsMatchColumns ==
    DecodedTable(last) => RowsMatchColumns(last.out.v)

\* C9 amended: every table parseCypherResult builds itself, the empty table
\* or the table of a list of objects, has rows with exactly as many values
\* as there are columns, null standing where an object lacks a member; this
\* covers every response that does not parse as an object with a columns
\* and a data member.
C9_BuiltRowsMatchColumns ==
    (/\ DecodedTable(last)
     /\ ~(JsonParse(RawString(last)).ok
          /\ HasTableShape(JsonParse(RawString(last)).v)))
        => RowsMatchColumns(last.out.v)

\* a row built for an object that lacks a column holds null in its place
C9_Witness ==
    /\ last.op = "parseCypherResult"
    /\ last.args[1].s = "[{\"a\":1,\"b\":2},{\"b\":3}]"
    /\ last.out.ok
    /\ Get(last.out.v, "data").items[2] = JArr(<<JNull, JNum(3)>>)

\* x is a non-empty list of objects
IsObjectList(x) ==
    /\ x.t = "arr"
    /\ Len(x.items) > 0
    /\ \A i \in 1..Len(x.items) : x.items[i].t = "obj"

\* the table t has one column per member of the first object of list, one
\* row per element, and in row i at position j the value of column j in
\* element i, or null where the element lacks it
IsTableOf(t, list) ==
    /\ RowsMatchColumns(t)
    /\ Len(Get(t, "columns").items) = Len(list.items[1].members)
    /\ \A m \in 1..Len(list.items[1].members) :
          \E j \in 1..Len(Get(t, "columns").items) :
              Get(t, "columns").items[j] = JStr(list.items[1].members[m].k)
    /\ Len(Get(t, "data").items) = Len(list.items)
    /\ \A i \in 1..Len(list.items) :
          \A j \in 1..Len(Get(t, "columns").items) :
              Get(t, "data").items[i].items[j]
                  = OrNull(Get(list.items[i], Get(t, "columns").items[j].s))

\* C10: for a raw response that parses as a non-empty JSON list of objects,
\* parseCypherResult returns a table whose columns are the member names of
\* the first object, with one row per list element in list order, row i
\* holding at position j the value of column j in object i, or null when
\* object i lacks that member.
C10_ListOfObjectsIsTable ==
    (ParsesAsJson(last) /\ IsObjectList(ParsedOf(last)))
        => (last.out.ok /\ IsTableOf(last.out.v, ParsedOf(last)))

----------------------------------------------------------------------------
(* Properties of the row conversion (SpecDecoder) *)

\* x is a table: a list of column names and a list of value tuples
IsTable(x) ==
    /\ HasTableShape(x)
    /\ Get(x, "columns").t = "arr"
    /\ \A j \in 1..Len(Get(x, "columns").items) : Get(x, "columns").items[j].t = "str"
    /\ Get(x, "data").t = "arr"
    /\ \A i \in 1..Len(Get(x, "data").items) : Get(x, "data").items[i].t = "arr"

\* the value of the tuple at position j, null when it has none there
CellOrNull(tuple, j) ==
    IF j <= Len(tuple.items) THEN OrNull(tuple.items[j]) ELSE JNull

\* the last position of columns that holds the name at position j
LastPosition(columns, j) ==
    CHOOSE k \in j..Len(columns) :
        /\ columns[k] = columns[j]
        /\ \A m \in (k + 1)..Len(columns) : columns[m] # columns[j]

\* rows has one object per tuple of the table, in order, whose keys are the
\* column names, the key at position j holding the value at position At(j)
RowsOf(rows, columns, data, At(_)) ==
    /\ rows.t = "arr"
    /\ Len(rows.items) = Len(data)
    /\ \A i \in 1..Len(data) :
          /\ rows.items[i].t = "obj"
          /\ {rows.items[i].members[m].k : m \in 1..Len(rows.items[i].members)}
                = {columns[j].s : j \in 1..Len(columns)}
          /\ Len(rows.items[i].members)
                = Cardinality({columns[j].s : j \in 1..Len(columns)})
          /\ \A j \in 1..Len(columns) :
                Get(rows.items[i], columns[j].s) = CellOrNull(data[i], At(j))

\* C11 as stated: for every table resultToRows returns one row object per
\* data row in order; its keys are exactly the column names and key
\* columns[j] maps to data[i][j], or to null when row i has no value there;
\* values beyond the column count are dropped.
C11_RowsZipColumns ==
    (last.op = "resultToRows" /\ IsTable(last.args[1]))
        => /\ last.out.ok
           /\ RowsOf(last.out.v, Get(last.args[1], "columns").items,
                     Get(last.args[1], "data").items, LAMBDA j : j)

\* C11 amended: as above, except that a column name that occurs more than
\* once yields one key, which maps to the value at the last position that
\* carries the name.
C11_RowsZipLastColumn ==
    (last.op = "resultToRows" /\ IsTable(last.args[1]))
        => /\ last.out.ok
           /\ RowsOf(last.out.v, Get(last.args[1], "columns").items,
                     Get(last.args[1], "data").items,
                     LAMBDA j : LastPosition(Get(last.args[1], "columns").items, j))

\* a short tuple was filled with null and a long one cut to the columns
C11_Witness ==
    /\ last.op = "resultToRows"
    /\ Get(last.args[1], "columns") = JArr(<<JStr("a"), JStr("b")>>)
    /\ Get(last.args[1], "data") = JArr(<<JArr(<<JNum(1)>>), JArr(<<JNum(2), JNum(3)>>)>>)
    /\ last.out = Ok(JArr(<<JObj(<<Member("a", JNum(1)), Member("b", JNull)>>),
                           JObj(<<Member("a", JNum(2)), Member("b", JNum(3))>>)>>))

----------------------------------------------------------------------------
(* Sequences of upserts on one connection with the extension loaded.  Each *)
(* call record also holds what the call found: the stored graph before it, *)
(* the call made before it and the stored graph before that call.          *)

Found ==
    [op |-> last.op, args |-> last.args, ok |-> last.out.ok, store |-> store,
     before |-> IF last.op = "none" THEN store ELSE last.pre.store]

\* the previous call was an upsert, if there was one
AfterUpsert == last.op \in {"none", "upsertNode", "upsertEdge"}

\* the length of a sequence of upsertNode calls, and of a sequence of
\* upsertEdge calls and the upsertNode calls for their endpoints
MaxCalls == 3
MaxEdgeCalls == 4
\* the edges a sequence of upsertEdge calls may store
MaxStoredEdges == 2

\* the number of calls made so far in a counted sequence
Calls == IF last.op = "none" THEN 0 ELSE last.n

\* the call op(args), made right after the previous one as call number n,
\* has the result r
StepAfter(op, args, n, r) ==
    /\ Len(r.w.store.nodes) <= MaxNodes
    /\ Len(r.w.store.edges) <= MaxStoredEdges
    /\ last' = [op |-> op, args |-> args, answer |-> Undef, out |-> r.out,
                calls |-> r.w.calls, pre |-> Found, n |-> n]
    /\ store' = r.w.store
    /\ cacheLoaded' = r.w.cache
    /\ dbOpen' = r.w.open
    /\ UNCHANGED extensionLoaded

upsertNodeAfter ==
    \E nodeId \in NodeIds, properties \in UpsertMaps, label \in UpsertLabels :
        /\ AfterUpsert
        /\ Calls < MaxCalls
        /\ StepAfter("upsertNode", <<S(nodeId), properties, label>>, Calls + 1,
                  Graph_upsertNode(extensionLoaded, World(Undef), nodeId, properties, label))

NextNodes == upsertNodeAfter

SpecNodes == InitDecoder /\ [][NextNodes]_vars

\* an endpoint node is upserted without properties
upsertEndpoint ==
    \E nodeId \in NodeIds :
        /\ AfterUpsert
        /\ Calls < MaxEdgeCalls
        /\ StepAfter("upsertNode", <<S(nodeId), JObj(<<>>), Undef>>, Calls + 1,
                  Graph_upsertNode(extensionLoaded, World(Undef), nodeId, JObj(<<>>), Undef))

upsertEdgeAfter ==
    \E properties \in EdgeMaps, relType \in EdgeTypes :
        /\ AfterUpsert
        /\ Calls < MaxEdgeCalls
        /\ StepAfter("upsertEdge", <<S("a"), S("b"), properties, relType>>, Calls + 1,
                  Graph_upsertEdge(extensionLoaded, World(Undef), "a", "b",
                                   properties, relType))

NextEdges == upsertEndpoint \/ upsertEdgeAfter

SpecEdges == InitDecoder /\ [][NextEdges]_vars

----------------------------------------------------------------------------
(* Properties of upsertNode sequences (SpecNodes) *)

\* the last two calls were upsertNode for the same id and both returned
NodeTwice ==
    /\ last.op = "upsertNode"
    /\ last.out.ok
    /\ last.pre.op = "upsertNode"
    /\ last.pre.ok
    /\ last.pre.args[1] = last.args[1]

\* the property k of the member list ms, null when it is not stored
Prop(ms, k) == OrNull(Get(JObj(ms), k))

\* the member list ms holds exactly the id x and the non-null members of p
HoldsOnly(ms, x, p) ==
    /\ Prop(ms, "id") = x
    /\ \A m \in 1..Len(ms) :
          ms[m].k = "id" \/ (HasOwn(p.members, ms[m].k) /\ ms[m].v = Get(p, ms[m].k))
    /\ \A m \in 1..Len(p.members) :
          p.members[m].k = "id" \/ Prop(ms, p.members[m].k) = p.members[m].v

MergedInto(ms, old, p) ==
    /\ \A m \in 1..Len(p.members) : Prop(ms, p.members[m].k) = p.members[m].v
    /\ \A m \in 1..Len(old) : HasOwn(p.members, old[m].k) \/ Prop(ms, old[m].k) = old[m].v
    /\ \A m \in 1..Len(ms) : HasOwn(p.members, ms[m].k) \/ Prop(old, ms[m].k) = ms[m].v

\* the map p names no id of its own
NoIdKey(p) == ~HasOwn(p.members, "id")

C13_UpsertNodeIdempotent ==
    (/\ last.op = "upsertNode"
     /\ last.pre.op = "upsertNode"
     /\ last.pre.ok
     /\ last.pre.args = last.args)
        => (last.out.ok /\ store = last.pre.store)

\* the string values of the map p that hold a single quote
QuotedKeys(p) ==
    {m \in 1..Len(p.members) :
        p.members[m].v.t = "str" /\ Includes(p.members[m].v.s, "'")}

\* C16: a string property value that holds a single quote is stored by
\* upsertNode, on the create and on the update path, so that reading the
\* property gives the original string.
C16_QuotedValueRoundTrips ==
    (last.op = "upsertNode" /\ QuotedKeys(last.args[2]) # {})
        => /\ last.out.ok
           /\ NodesWithId(store, last.args[1]) # {}
           /\ \A n \in NodesWithId(store, last.args[1]) :
                 \A m \in QuotedKeys(last.args[2]) :
                    Prop(store.nodes[n].props, last.args[2].members[m].k)
                        = last.args[2].members[m].v

----------------------------------------------------------------------------
(* Properties of upsertEdge sequences (SpecEdges) *)

\* the relationship type of an upsertEdge call
TypeOf(call) == OrDefault(call.args[4], "RELATED")

\* the edges of type T from a node with id x to a node with id y
TypedEdges(st, x, T, y) == {e \in EdgesBetween(st, x, y) : st.edges[e].type = T}

\* both endpoints of the upsertEdge call exist in st
EndpointsIn(st, call) ==
    NodesWithId(st, call.args[1]) # {} /\ NodesWithId(st, call.args[2]) # {}

\* C14: upsertEdge decides existence by the source id, the target id and the
\* relationship type: when both endpoints exist and no edge of type relType
\* (default 'RELATED') runs from source to target, it creates one such edge
\* with all given properties, also when an edge of another type connects
\* the pair.
C14_MissingTypeIsCreated ==
    (/\ last.op = "upsertEdge"
     /\ EndpointsIn(last.pre.store, last)
     /\ TypedEdges(last.pre.store, last.args[1], TypeOf(last), last.args[2]) = {})
        => /\ last.out.ok
           /\ Cardinality(TypedEdges(store, last.args[1], TypeOf(last), last.args[2])) = 1
           /\ \A e \in TypedEdges(store, last.args[1], TypeOf(last), last.args[2]) :
                 \A m \in 1..Len(last.args[3].members) :
                    Prop(store.edges[e].props, last.args[3].members[m].k)
                        = OrNull(last.args[3].members[m].v)

\* the last two calls were upsertEdge for the same endpoints and type, both
\* returned, and before the first both endpoints existed with no edge
\* between them
EdgeTwice ==
    /\ last.op = "upsertEdge"
    /\ last.out.ok
    /\ last.pre.op = "upsertEdge"
    /\ last.pre.ok
    /\ last.pre.args[1] = last.args[1]
    /\ last.pre.args[2] = last.args[2]
    /\ TypeOf(last.pre) = TypeOf(last)
    /\ EndpointsIn(last.pre.before, last)
    /\ EdgesBetween(last.pre.before, last.args[1], last.args[2]) = {}

\* C15: with both endpoints existing and no prior edge between them,
\* upsertEdge(s, t, p1, T) followed by upsertEdge(s, t, p2, T) leaves exactly
\* one edge of type T from s to t, on which every key of p2 holds p2's value.
C15_SecondUpsertEdgeUpdates ==
    EdgeTwice
        => /\ Cardinality(TypedEdges(store, last.args[1], TypeOf(last), last.args[2])) = 1
           /\ \A e \in TypedEdges(store, last.args[1], TypeOf(last), last.args[2]) :
                 \A m \in 1..Len(last.args[3].members) :
                    Prop(store.edges[e].props, last.args[3].members[m].k)
                        = last.args[3].members[m].v

\* the second call changed the value the first call had set
C15_Witness ==
    /\ EdgeTwice
    /\ last.pre.args[3] = JObj(<<Member("since", JNum(2020))>>)
    /\ Get(last.args[3], "since") = JNum(2021)
    /\ \E e \in TypedEdges(store, S("a"), "KNOWS", S("b")) :
          /\ Prop(store.edges[e].props, "since") = JNum(2021)
          /\ Prop(store.edges[e].props, "note") = JStr("A's")

----------------------------------------------------------------------------
(* Properties of the algorithm adapters (SpecAlgo, Spec) *)

\* the rows of the engine's answer to the one query of an algorithm call,
\* read from the answer text itself
NativeRows(call) ==
    IF /\ Len(call.calls) = 1
       /\ call.calls[1].resp.t = "str"
       /\ JsonParse(call.calls[1].resp.s).ok
       /\ JsonParse(call.calls[1].resp.s).v.t = "arr"
    THEN JsonParse(call.calls[1].resp.s).v.items
    ELSE <<>>

\* the value of column_0 in the first of those rows, undefined without one
NativeValue(call) ==
    IF Len(NativeRows(call)) > 0 THEN Get(NativeRows(call)[1], "column_0") ELSE Undef

\* the path of the native result x is a list where it is present
PathIsList(x) == Get(x, "path").t \in {"undef", "null", "arr"}

\* the native result x is absent, or its found flag is false, or its path
\* list is absent or empty
NoPath(x) ==
    \/ IsNullish(x)
    \/ Get(x, "found") = JBool(FALSE)
    \/ IsNullish(Get(x, "path"))
    \/ Len(Get(x, "path").items) = 0

\* C17: shortestPath returns null exactly when the native result is absent,
\* or its found flag is explicitly false, or its path list is absent or
\* empty; in every other case it returns the record's path and distance
\* unchanged, and so never an object with an empty path.
C17_NullExactlyWhenNoPath ==
    (/\ last.op = "shortestPath"
     /\ last.out.ok
     /\ PathIsList(NativeValue(last)))
        => IF NoPath(NativeValue(last)) THEN last.out.v = JNull
           ELSE /\ last.out.v = JObj(<<Member("path", Get(NativeValue(last), "path")),
                                       Member("distance",
                                              Get(NativeValue(last), "distance"))>>)
                /\ Len(last.out.v.members[1].v.items) > 0

\* a record with a path and neither found flag nor distance is returned
C17_Witness ==
    /\ last.op = "shortestPath"
    /\ last.out.ok
    /\ NativeValue(last) = JObj(<<Member("path", JArr(<<S("a"), S("b")>>))>>)
    /\ last.out.v = JObj(<<Member("path", JArr(<<S("a"), S("b")>>)),
                           Member("distance", Undef)>>)

\* C18: dijkstra is an alias of shortestPath: in every connection state and
\* for every sourceId, targetId and weight it returns the same value or
\* raises the same error as shortestPath does there, after the same native
\* query, leaving the same state.
C18_DijkstraIsShortestPath ==
    [][last'.op = "dijkstra"
          => /\ last'.out = Graph_shortestPath(extensionLoaded, World(last'.answer),
                                last'.args[1].s, last'.args[2].s, last'.args[3]).out
             /\ last'.calls = Graph_shortestPath(extensionLoaded, World(last'.answer),
                                last'.args[1].s, last'.args[2].s, last'.args[3]).w.calls
             /\ store' = store
             /\ dbOpen' = dbOpen
             /\ cacheLoaded' = cacheLoaded]_vars

\* dijkstra with a weight found a path
C18_Witness ==
    /\ last.op = "dijkstra"
    /\ last.args[3] = S("cost")
    /\ last.out.ok
    /\ last.out.v # JNull
    /\ Len(last.calls) = 1
    /\ last.calls[1].args = <<"RETURN dijkstra(\"a\", \"b\", \"cost\")">>

\* the field of the per-node records an adapter reads
ScoreField(call) == IF call.op = "pagerank" THEN "score" ELSE "community"

\* the native result of call is a list of records
RecordList(call) ==
    /\ call.op \in {"pagerank", "louvain"}
    /\ NativeValue(call).t = "arr"
    /\ \A i \in 1..Len(NativeValue(call).items) : NativeValue(call).items[i].t = "obj"

\* the key the specification gives a record: its user_id when present,
\* otherwise the string form of its node_id
KeyOf(record) ==
    IF IsNullish(Get(record, "user_id")) THEN JsToString(Get(record, "node_id"))
    ELSE JsToString(Get(record, "user_id"))

\* C19: for pagerank and louvain, given a native result list of per-node
\* records, the returned mapping holds for each record with a numeric score
\* (community) one entry, keyed by the record's user_id when present and
\* otherwise by the string form of its node_id, whose value is that score
\* (community); the mapping has no other keys.
C19_OneEntryPerScoredRecord ==
    RecordList(last)
        => /\ last.out.ok
           /\ last.out.v.t = "obj"
           /\ \A i \in 1..Len(NativeValue(last).items) :
                 Get(NativeValue(last).items[i], ScoreField(last)).t = "num"
                    => /\ HasOwn(last.out.v.members, KeyOf(NativeValue(last).items[i]))
                       /\ Get(last.out.v, KeyOf(NativeValue(last).items[i]))
                            = Get(NativeValue(last).items[i], ScoreField(last))
           /\ \A m \in 1..Len(last.out.v.members) :
                 \E i \in 1..Len(NativeValue(last).items) :
                    /\ Get(NativeValue(last).items[i], ScoreField(last)).t = "num"
                    /\ KeyOf(NativeValue(last).items[i]) = last.out.v.members[m].k

\* what cypher does for the query and the native answer of an algorithm call
QueryOf(call) ==
    Graph_cypher(extensionLoaded, World(call.answer), call.calls[1].args[1], Undef)

\* C20: when the query of pagerank or louvain succeeds, the call does not
\* raise, and it returns an empty mapping if the returned value is absent or
\* malformed (no row, no column_0 value, a value that is no list, a list
\* whose elements are no records); the call raises only when the query fails.
C20_MalformedGivesEmptyMapping ==
    (/\ last.op \in {"pagerank", "louvain"}
     /\ Len(last.calls) = 1
     /\ QueryOf(last).out.ok)
        => /\ last.out.ok
           /\ ~RecordList(last) => last.out.v = JObj(<<>>)

----------------------------------------------------------------------------
(* Properties of the statistics probe and the connection (Spec) *)

\* what JSON.parse makes of the native answer of a getStats call, undefined
\* when the call had no answer text or the text is no JSON
ReportOf(call) ==
    IF /\ Len(call.calls) = 1
       /\ call.calls[1].resp.t = "str"
       /\ JsonParse(call.calls[1].resp.s).ok
    THEN JsonParse(call.calls[1].resp.s).v
    ELSE Undef

\* the loaded flag of the report x is a boolean where it is present
FlagIsBoolean(x) == Get(x, "loaded").t \in {"undef", "null", "bool"}

\* C21: getStats never raises, whatever the connection state and the native
\* answer; it returns the reported node and edge counts (0 for a missing
\* count) when the parsed response has loaded true, and {nodes: 0, edges: 0}
\* in every other case.
C21_GetStatsNeverRaises ==
    (last.op = "getStats" /\ FlagIsBoolean(ReportOf(last)))
        => /\ last.out.ok
           /\ last.out.v =
                IF Get(ReportOf(last), "loaded") = JBool(TRUE)
                THEN Stats(IF IsNullish(Get(ReportOf(last), "nodes")) THEN JNum(0)
                           ELSE Get(ReportOf(last), "nodes"),
                           IF IsNullish(Get(ReportOf(last), "edges")) THEN JNum(0)
                           ELSE Get(ReportOf(last), "edges"))
                ELSE Stats(JNum(0), JNum(0))

\* a report with a missing count is returned with 0 in its place
C21_Witness ==
    /\ last.op = "getStats"
    /\ ReportOf(last) = JObj(<<Member("loaded", JBool(TRUE)), Member("nodes", JNull),
                               Member("edges", JNum(3))>>)
    /\ last.out.ok
    /\ last.out.v = Stats(JNum(0), JNum(3))

\* C22: on an open connection with the extension loaded, loadGraph,
\* unloadGraph and reloadGraph, in any order and whether or not a load
\* occurred before, never raise and change neither the stored graph nor the
\* extensionLoaded flag.
C22_CacheOpsNeverRaise ==
    [][(last'.op \in CacheOps /\ dbOpen /\ extensionLoaded)
          => /\ last'.out.ok
             /\ store' = store
             /\ extensionLoaded' = extensionLoaded
             /\ dbOpen']_vars

\* unloadGraph returned with nodes stored and no cache loaded
C22_Witness ==
    /\ last.op = "unloadGraph"
    /\ last.out.ok
    /\ dbOpen
    /\ extensionLoaded
    /\ ~cacheLoaded
    /\ Len(store.nodes) > 0
    /\ Len(last.calls) = 1

\* the operations C23 names
AfterCloseOps == GuardedOps \cup CacheOps \cup {"getStats"}

\* C23 as stated: after close() every operation on the same Graph fails
\* with an error; none succeeds on the closed handle and none reopens it.
C23_ClosedHandleFails ==
    [][(~dbOpen /\ last'.op \in AfterCloseOps)
          => (~last'.out.ok /\ ~dbOpen')]_vars

\* C23 amended: after close() every operation but getStats fails with an
\* error, getStats returns {nodes: 0, edges: 0}, and no operation reopens
\* the handle or changes the stored graph.
C23_ClosedHandleFailsButStats ==
    [][(~dbOpen /\ last'.op \in AfterCloseOps)
          => /\ IF last'.op = "getStats"
                THEN last'.out.ok /\ last'.out.v = Stats(JNum(0), JNum(0))
                ELSE ~last'.out.ok
             /\ ~dbOpen'
             /\ store' = store]_vars

\* with the extension loaded, upsertNode on the closed handle raised the
\* native error
C23_Witness ==
    /\ ~dbOpen
    /\ extensionLoaded
    /\ last.op = "upsertNode"
    /\ ~last.out.ok
    /\ last.out.v.t = "GraphQLiteError"
    /\ Len(last.calls) = 1

----------------------------------------------------------------------------
(* Properties of the construction (SpecOpen) *)

\* the library names searched on the host
Candidates(host) == searchPaths("graphqlite" \o getLibraryExtension(host.platform))

\* x is the first search path that exists on the host, or null without one
FirstFound(x, host) ==
    \/ /\ x = JNull
       /\ \A i \in 1..Len(Candidates(host)) : Candidates(host)[i] \notin host.files
    \/ \E i \in 1..Len(Candidates(host)) :
          /\ x = JStr(Candidates(host)[i])
          /\ Candidates(host)[i] \in host.files
          /\ \A j \in 1..(i - 1) : Candidates(host)[j] \notin host.files

\* a path argument or variable that is given and not empty
NonEmpty(x) == x.t = "str" /\ x.s # ""

\* C24 as stated: resolveExtensionPath returns the explicit path whenever
\* one is given (non-empty), otherwise the value of
\* GRAPHQLITE_EXTENSION_PATH whenever it is set, otherwise the first of the
\* search paths that exists, and null only when none of the three resolves.
C24_ResolveOrder ==
    last.op = "resolveExtensionPath"
        => /\ last.out.ok
           /\ IF NonEmpty(last.args[1]) THEN last.out.v = last.args[1]
              ELSE IF last.host.env # Undef THEN last.out.v = last.host.env
              ELSE FirstFound(last.out.v, last.host)

\* C24 amended: the environment variable counts only when its value is not
\* empty; set to the empty string it is passed over like an unset one.
C24_ResolveOrderNonEmpty ==
    last.op = "resolveExtensionPath"
        => /\ last.out.ok
           /\ IF NonEmpty(last.args[1]) THEN last.out.v = last.args[1]
              ELSE IF NonEmpty(last.host.env) THEN last.out.v = last.host.env
              ELSE FirstFound(last.out.v, last.host)

\* with no argument and an empty variable the second search path is found
C24_Witness ==
    /\ last.op = "resolveExtensionPath"
    /\ last.args[1] = Undef
    /\ last.host.env = S("")
    /\ last.out.v = S("./native/graphqlite.so")

\* the path the constructor of call resolves, null without one
ResolvedPath(call) == resolveExtensionPath(call.args[1].extensionPath, call.host)

\* the file of the resolved path exists and db.loadExtension returned
LoadSucceeded(call) ==
    /\ ResolvedPath(call).s \in call.host.files
    /\ call.native.load.t \notin ErrorClasses

\* graphqlite_test() returned a string containing 'successfully'
ProbeSucceeded(call) ==
    /\ call.native.probe.t = "str"
    /\ Includes(call.native.probe.s, "successfully")

\* C25: after construction the extensionLoaded flag is true if and only if
\* an extension path resolved, the native load succeeded and the probe
\* returned a string containing 'successfully'; if a path resolved but the
\* load or the probe failed the constructor raises a GraphQLiteError with
\* the flag false; if no path resolved it returns an open connection with
\* the flag false.
C25_FlagIffLoadedAndVerified ==
    (last.op = "constructor" /\ last.native.opens)
        => IF ResolvedPath(last) = JNull
           THEN last.out.ok /\ dbOpen /\ ~extensionLoaded
           ELSE IF LoadSucceeded(last) /\ ProbeSucceeded(last)
           THEN last.out.ok /\ dbOpen /\ extensionLoaded
           ELSE /\ ~last.out.ok
                /\ last.out.v.t = "GraphQLiteError"
                /\ ~extensionLoaded

\* the library found on the search path loaded and verified although the
\* PRAGMA had failed
C25_Witness ==
    /\ last.op = "constructor"
    /\ last.args[1].extensionPath = Undef
    /\ ~NonEmpty(last.host.env)
    /\ ResolvedPath(last) = S("./build/graphqlite.so")
    /\ last.warned
    /\ last.out.ok
    /\ extensionLoaded
    /\ dbOpen

\* C30: whenever the Graph constructor raises (extension file missing,
\* native load failure, failed probe verification) the database handle it
\* opened has been closed.
C30_RaisingConstructorCloses ==
    (last.op = "constructor" /\ ~last.out.ok) => ~dbOpen

----------------------------------------------------------------------------
(* Properties of the create and update paths (SpecNodes, SpecEdges) *)

\* the last call was upsertNode for an id no stored node had
NodeAbsent ==
    /\ last.op = "upsertNode"
    /\ NodesWithId(last.pre.store, last.args[1]) = {}

\* C26: when no node with the given id exists, upsertNode issues exactly one
\* creation query after the existence check; the new node has the given
\* label, or 'Entity' when the label is omitted or empty, carries every given
\* property, and its id equals nodeId, also when the properties map holds an
\* id key with another value.
C26_AbsentNodeIsCreated ==
    /\ NodeAbsent
          => /\ Len(last.calls) = 2
             /\ StartsWith(last.calls[2].args[1],
                           "CREATE (n:" \o OrDefault(last.args[3], "Entity") \o " {")
    /\ (NodeAbsent /\ last.out.ok)
          => /\ Len(store.nodes) = Len(last.pre.store.nodes) + 1
             /\ Cardinality(NodesWithId(store, last.args[1])) = 1
             /\ \A n \in NodesWithId(store, last.args[1]) :
                   /\ store.nodes[n].label = OrDefault(last.args[3], "Entity")
                   /\ HoldsOnly(store.nodes[n].props, last.args[1], last.args[2])

\* a node created with an empty label from a map with an id key of its own
C26_Witness ==
    /\ NodeAbsent
    /\ last.args = <<S("a"), JObj(<<Member("id", S("b"))>>), S("")>>
    /\ last.out.ok
    /\ \E n \in NodesWithId(store, S("a")) : store.nodes[n].label = "Entity"
    /\ NodesWithId(store, S("b")) = {}

\* the last call was upsertNode for an id a stored node had
NodePresent ==
    /\ last.op = "upsertNode"
    /\ NodesWithId(last.pre.store, last.args[1]) # {}

\* the native call c was answered by an error
NativeFailed(c) ==
    \/ c.resp.t \in ErrorClasses
    \/ c.resp.t = "str" /\ StartsWith(c.resp.s, "Error")

\* the property-set queries a call issued after its existence check
SetCalls(call) == SubSeq(call.calls, 2, Len(call.calls))

C28_OneNodePerId ==
    /\ \A n, m \in 1..Len(store.nodes) :
          Prop(store.nodes[n].props, "id") = Prop(store.nodes[m].props, "id") => n = m
    /\ (last.op = "upsertNode" /\ last.out.ok)
          => NodesWithId(store, last.args[1]) # {}

\* C29: when the source node or the target node does not exist, upsertEdge
\* creates no edge and no node, leaves the stored graph unchanged, and
\* returns without raising an error.
C29_MissingEndpointIsNoOp ==
    (last.op = "upsertEdge" /\ ~EndpointsIn(last.pre.store, last))
        => /\ last.out.ok
           /\ store = last.pre.store
           /\ Len(last.calls) = 2

\* with only the target stored, upsertEdge with properties returned and the
\* graph is as before
C29_Witness ==
    /\ last.op = "upsertEdge"
    /\ NodesWithId(last.pre.store, S("a")) = {}
    /\ NodesWithId(last.pre.store, S("b")) # {}
    /\ Len(last.args[3].members) = 2
    /\ last.out.ok
    /\ store = last.pre.store
    /\ store.edges = <<>>

============================================================================
